---- MODULE Spec2Model ----
(***************************************************************************)
(* Upload dispatch of snapTo: the `upload` command (one dispatch) and the  *)
(* `watch` command (one dispatch per changed clipboard image), with the    *)
(* uploaders, the clipboard and the history store they drive.              *)
(*                                                                         *)
(* Conventions: an Option<T> is a sequence, None == <<>> and Some(x) ==    *)
(* <<x>>; a string built by format!/join is the tuple of its parts; Rust's *)
(* 0-based index i is the 1-based index i + 1 here (the primary is 1).     *)
(***************************************************************************)
EXTENDS Integers, Sequences, FiniteSets, TLC

VARIABLES
    cmd,             \* which command runs: "upload" or "watch"
    pc,              \* position inside the command
    config,          \* Config::load(): general, history and uploads sections
    destination,     \* the command's `destination: Option<String>` argument
    image_data,      \* bytes read from the clipboard for the current dispatch
    final_filename,  \* file name of the current dispatch
    uploader_names,  \* the destination list built for the command
    uploaders,       \* watch: the (name, uploader) pairs that passed set-up
    i,               \* loop index (1-based)
    primary_result,  \* Option<UploadResult>
    outcome,         \* result of the dispatch / command
    history,         \* rows of the history table, in insertion order
    history_handle,  \* watch: Option<HistoryManager> opened at start-up
    next_id,         \* AUTOINCREMENT of the history table
    clock,           \* chrono::Utc::now() as a tick
    clipboard_text,  \* text last put on the clipboard by set_text
    remote,          \* files present at the destinations
    last_hash,       \* watch: Option<u64> of the last image seen
    upload_count,    \* watch: number of completed dispatches
    polls,           \* watch: number of polls made
    COUNTER,         \* naming.rs global {counter}
    log,             \* upload, watch: calls made on destinations, in order
    attempts,        \* upload() calls of the current dispatch (in the UI: of
                     \* the run), in order
    added,           \* history rows inserted by the current dispatch
    history_step,    \* what the history step of the current dispatch did
    files,           \* files under the history directory: path -> content
    call,            \* the last HistoryManager call made and what it returned
    screen,          \* App::screen
    available_uploaders,  \* App::available_uploaders: <<name, UploadConfig>>
    history_selected,     \* App::history_selected (1-based)
    show_reupload_menu,   \* App::show_reupload_menu
    reupload_selected,    \* App::reupload_selected (1-based)
    show_password_prompt, \* App::show_password_prompt
    password_buffer,      \* App::password_buffer
    pending_reupload,     \* App::pending_reupload: Option<PendingReupload>
    status_message,       \* App::status_message: Option<String>
    keychain,        \* entries of the credential vault: key -> value
    frame,           \* the HistoryManager call in progress, None between calls
    vault_file,      \* Option<content> of the file at encrypted_file_path
    master_password, \* Option<String>: SNAPTO_MASTER_PASSWORD of the process
    vault_keys,      \* the keys the vault calls so far have set: surely, and
                     \* perhaps (a call on the key returned an error)
    seen,            \* watch: what the last poll read from the clipboard,
                     \* the last image a poll read, and whether the last poll
                     \* started a dispatch
    in_flight,       \* Option<name>: the destination whose upload() future
                     \* has been started and has not completed
    remote_dir,      \* what the server has at the remote target directory:
                     \* "absent", "dir" or "file"
    channel,         \* the sync_channel of ClipboardManager::watch: the
                     \* images buffered and whether the receiver is alive
    procs            \* the local state of each concurrent caller (thread or
                     \* process) of a section with several of them

vars == <<cmd, pc, config, destination, image_data, final_filename,
          uploader_names, uploaders, i, primary_result, outcome, history,
          history_handle, next_id, clock, clipboard_text, remote, last_hash,
          upload_count, polls, COUNTER, log, attempts, added, history_step,
          files, call, screen, available_uploaders,
          history_selected, show_reupload_menu, reupload_selected,
          show_password_prompt, password_buffer, pending_reupload,
          status_message, keychain, frame, vault_file, master_password,
          vault_keys, seen, in_flight, remote_dir, channel, procs>>

\* the state of the history store outside its table
store_vars == <<files, call>>

\* the encrypted vault file, the master password and the keys set so far
vault_vars == <<vault_file, master_password, vault_keys>>

\* the call in progress of the history store, the vault, and the last read
\* of the watch loop
ext_vars == <<frame, vault_vars, seen, in_flight, remote_dir, channel, procs>>

\* the state of the sections with several parties
race_vars == <<remote_dir, channel, procs>>

\* the state of the terminal UI
tui_vars == <<screen, available_uploaders, history_selected,
              show_reupload_menu, reupload_selected, show_password_prompt,
              password_buffer, pending_reupload, status_message, keychain>>

-----------------------------------------------------------------------------
(* Bounds *)

\* longest `additional_uploaders` list the destination list is built from
MaxAdditional == 2
\* longest clipboard image drawn, in bytes
MaxLen == 2
\* clipboard polls the watch loop makes before the model stops it
MaxPolls == 1
\* history.max_entries of the drawn configuration
MaxEntries == 2
\* size of the hash space calculate_hash is folded into
HashSpace == 251
\* clipboard polls the watch loop makes when it is run on its own
MaxWatchPolls == 3
\* threads or processes that run the same operation side by side
MaxThreads == 2
\* settings actions made on the Uploaders section
MaxEdits == 2

-----------------------------------------------------------------------------
(* Values *)

None == <<>>
Some(x) == <<x>>
IsSome(o) == o # <<>>
Unwrap(o) == o[1]

Names == {"a", "b", "c"}
ByteVals == {1}

SeqsUpTo(S, n) == UNION {[1..k -> S] : k \in 0..n}

Images == SeqsUpTo(ByteVals, MaxLen)

Contains(s, x) == \E k \in 1..Len(s) : s[k] = x

Range(s) == {s[k] : k \in 1..Len(s)}

\* UploadConfig values the configuration file may hold for destination n
LocalConfig(n, en) ==
    [uploader_type |-> "local", enabled |-> en, host |-> None,
     username |-> None, remote_path |-> None,
     base_url |-> Some(<<"https://files", n>>),
     local_path |-> Some(<<"~/shots", n>>),
     use_key_auth |-> None, key_path |-> None]

SshConfig(n, en) ==
    [uploader_type |-> "ssh", enabled |-> en, host |-> Some(<<"host", n>>),
     username |-> Some("user"), remote_path |-> Some(<<"/srv/up", n>>),
     base_url |-> None, local_path |-> None,
     use_key_auth |-> Some(TRUE), key_path |-> Some("~/.ssh/id")]

SftpNoHostConfig(n, en) ==
    [uploader_type |-> "sftp", enabled |-> en, host |-> None,
     username |-> Some("user"), remote_path |-> Some(<<"/srv/up", n>>),
     base_url |-> Some(<<"https://cdn", n>>), local_path |-> None,
     use_key_auth |-> Some(TRUE), key_path |-> Some("~/.ssh/id")]

FtpConfig(n, en) ==
    [uploader_type |-> "ftp", enabled |-> en, host |-> Some(<<"host", n>>),
     username |-> Some("user"), remote_path |-> Some(<<"/srv/up", n>>),
     base_url |-> None, local_path |-> None,
     use_key_auth |-> None, key_path |-> None]

\* the configurations drawn for each destination name: every name can be
\* missing, disabled, enabled and valid, or enabled and rejected
UploadConfigs(n) ==
    IF n = "b"
    THEN {SshConfig(n, TRUE), SshConfig(n, FALSE), FtpConfig(n, TRUE)}
    ELSE {LocalConfig(n, TRUE), LocalConfig(n, FALSE),
          SftpNoHostConfig(n, TRUE)}

\* config.uploads: a map from some of the names to an UploadConfig
UploadMaps ==
    UNION {{f \in [D -> UNION {UploadConfigs(n) : n \in D}] :
               \A n \in D : f[n] \in UploadConfigs(n)} : D \in SUBSET Names}

\* the explicit `destination` arguments drawn
ExplicitDestinations == {"a", "b"}

\* (copy_url_to_clipboard, clipboard_copy_mode) pairs drawn
ClipboardSettings ==
    {<<FALSE, "Auto">>, <<TRUE, "Auto">>, <<TRUE, "Url">>, <<TRUE, "Path">>}

ClipboardCopyModes == {"Auto", "Url", "Path"}

Running == [status |-> "running", kind |-> "", dest |-> ""]
Ok == [status |-> "ok", kind |-> "", dest |-> ""]
Err(kind, dest) == [status |-> "err", kind |-> kind, dest |-> dest]

Event(op, dest) == [op |-> op, dest |-> dest]

-----------------------------------------------------------------------------
(* Pure functions *)

\* upload.rs:75-79, watch.rs:49-53: the loop over additional_uploaders
RECURSIVE AddAdditional(_, _, _, _)
AddAdditional(names, additional, primary_name, k) ==
    IF k > Len(additional) THEN names
    ELSE AddAdditional(
             IF additional[k] # primary_name /\ ~Contains(names, additional[k])
             THEN Append(names, additional[k]) ELSE names,
             additional, primary_name, k + 1)

\* upload.rs:70, watch.rs:44
PrimaryName(dest, cfg) ==
    IF IsSome(dest) THEN Unwrap(dest) ELSE cfg.default_uploader

\* mutant: the additional names are appended without the duplicate check
BuildUploaderNames_NoDedup(dest, cfg) ==
    IF ~IsSome(dest)
    THEN <<PrimaryName(dest, cfg)>> \o cfg.additional_uploaders
    ELSE <<PrimaryName(dest, cfg)>>

\* upload.rs:69-80, watch.rs:44-54
BuildUploaderNames(dest, cfg) ==
    IF ~IsSome(dest)
    THEN AddAdditional(<<PrimaryName(dest, cfg)>>, cfg.additional_uploaders,
                       PrimaryName(dest, cfg), 1)
    ELSE <<PrimaryName(dest, cfg)>>

\* mutant: the enabled flag is ignored
IsDisabled_Never(c) == FALSE

\* upload.rs:102, watch.rs:65: the destination is skipped
IsDisabled(c) == ~c.enabled

\* mutant: the last successful result is kept
KeepResult_Last(prev, result) == Some(result)

\* upload.rs:130-132, watch.rs:150-152: the first successful result is kept
KeepResult(prev, result) == IF IsSome(prev) THEN prev ELSE Some(result)

\* create_uploader: the uploader types it knows
KnownType(c) == c.uploader_type \in {"sftp", "ssh", "local"}

\* mutant: validate() accepts every configuration
Validate_Always(c) == TRUE

\* Uploader::validate of the three variants
Validate(c) ==
    IF c.uploader_type = "local"
    THEN IsSome(c.local_path)
    ELSE /\ IsSome(c.host)
         /\ IsSome(c.username)
         /\ IsSome(c.remote_path)
         /\ ~(c.use_key_auth = Some(TRUE) /\ ~IsSome(c.key_path))

\* the `url` every variant derives: base_url (trimmed) "/" filename
GenerateUrl(c, filename) ==
    IF IsSome(c.base_url) THEN Some(<<Unwrap(c.base_url), filename>>) ELSE None

\* mutant: the size reported leaves out the last byte written
UploadResultOf_ShortSize(c, data, filename) ==
    [remote_path |->
         IF c.uploader_type = "local"
         THEN <<Unwrap(c.local_path), filename>>
         ELSE <<Unwrap(c.remote_path), filename>>,
     url |-> IF IsSome(c.base_url) THEN Some(<<Unwrap(c.base_url), filename>>)
             ELSE None,
     size |-> Len(data) - 1]

\* the UploadResult a successful upload() returns
UploadResultOf(c, data, filename) ==
    [remote_path |->
         IF c.uploader_type = "local"
         THEN <<Unwrap(c.local_path), filename>>
         ELSE <<Unwrap(c.remote_path), filename>>,
     url |-> GenerateUrl(c, filename),
     size |-> Len(data)]

\* error kinds upload() of a variant can return
UploadErrors(c) ==
    IF c.uploader_type = "local" THEN {"Upload"}
    ELSE {"SshConnection", "SshAuthentication"}

\* whether upload() of this uploader can succeed at all: SftpUploader without
\* key authentication and without a password always fails to authenticate
CanSucceed(c, password) ==
    \/ c.uploader_type \in {"local", "ssh"}
    \/ c.use_key_auth = Some(TRUE)
    \/ IsSome(password)

\* upload.rs:168-181, watch.rs:176-189: Option of the text to copy
ClipboardTextOf(mode, result) ==
    CASE mode = "Auto" ->
             Some(IF IsSome(result.url) THEN Unwrap(result.url)
                  ELSE result.remote_path)
      [] mode = "Url" ->
             IF IsSome(result.url) THEN Some(Unwrap(result.url)) ELSE None
      [] OTHER -> Some(result.remote_path)

\* upload.rs:193-203, watch.rs:201-211
MakeEntry(filename, result, primary_name, now) ==
    [id |-> 0, filename |-> filename, remote_path |-> result.remote_path,
     url |-> result.url, size |-> result.size, destination |-> primary_name,
     created_at |-> now, thumbnail_path |-> None, local_copy_path |-> None]

\* watch.rs:238-245, DefaultHasher folded into HashSpace
RECURSIVE HashFold(_, _, _)
HashFold(data, k, h) ==
    IF k > Len(data) THEN h
    ELSE HashFold(data, k + 1, (31 * h + data[k]) % HashSpace)

calculate_hash(data) == HashFold(data, 1, Len(data) + 7)

\* naming.rs:40-100 for the template "shot_{counter}" and extension "png"
Generate(counter) == <<"shot_.png", counter>>

\* a file name given on the command line
GivenFilename == <<"given.png", 0>>

-----------------------------------------------------------------------------
(* History store *)

\* rows newer than r in `ORDER BY created_at DESC`
NewerThan(rows, r) ==
    {s \in Range(rows) : \/ s.created_at > r.created_at
                         \/ s.created_at = r.created_at /\ s.id > r.id}

RECURSIVE FilterRows(_, _)
FilterRows(rows, keep) ==
    IF rows = <<>> THEN <<>>
    ELSE IF Head(rows) \in keep
         THEN <<Head(rows)>> \o FilterRows(Tail(rows), keep)
         ELSE FilterRows(Tail(rows), keep)

\* history.rs:232-267 HistoryManager::cleanup
Cleanup(rows, max_entries) ==
    IF max_entries = 0 THEN rows
    ELSE FilterRows(rows, {r \in Range(rows) :
                              Cardinality(NewerThan(rows, r)) < max_entries})

\* history.rs:110-126: the INSERT, the row gets the next AUTOINCREMENT id
InsertRow(rows, entry, id) ==
    Append(rows, [entry EXCEPT !.id = id])

\* outcomes of HistoryManager::add (history.rs:86-132): "ok"; "err_before":
\* saving the thumbnail/copy or the INSERT failed, no row; "err_cleanup": the
\* row was inserted and cleanup() then failed
AddOutcomes == {"ok", "err_before", "err_cleanup"}

\* history.rs:86-132 HistoryManager::add: the rows afterwards
HistoryAdd(rows, hcfg, entry, id, how) ==
    IF ~hcfg.enabled \/ how = "err_before" THEN rows
    ELSE IF how = "err_cleanup" THEN InsertRow(rows, entry, id)
    ELSE Cleanup(InsertRow(rows, entry, id), hcfg.max_entries)

Inserted(hcfg, how) == hcfg.enabled /\ how # "err_before"

\* history.rs:321-330 sanitize_filename over the parts of a file name
SanitizeFilename(filename) ==
    [k \in 1..Len(filename) |->
        IF filename[k] \in {"/", "\\", ":", "*", "?", "\"", "<", ">", "|"}
        THEN "_" ELSE filename[k]]

\* history.rs:290-303 save_thumbnail: where the thumbnail goes
ThumbnailPath(filename) ==
    <<"thumbnails", <<"thumb_", SanitizeFilename(filename), ".png">>>>

\* history.rs:308-318 save_full_image: where the verbatim copy goes
ImagePath(filename) == <<"images", filename>>

-----------------------------------------------------------------------------
(* Initial state *)

\* no HistoryManager call has been made
NoCall ==
    [op |-> "none", ok |-> TRUE, value |-> 0, failed |-> "none", n |-> 0,
     adds |-> 0, prev |-> "none"]

\* app.rs:282-313 App::new: the interface state of an App that is not used
\* no history call in progress, no vault file, no master password set
ExtIdle ==
    /\ frame = <<>>
    /\ vault_file = <<>>
    /\ master_password = <<>>
    /\ vault_keys = [sure |-> {}, unsure |-> {}]
    /\ seen = [read |-> <<>>, image |-> <<>>, dispatched |-> FALSE]
    /\ in_flight = <<>>
    /\ remote_dir = "dir"
    /\ channel = <<>>
    /\ procs = <<>>

TuiIdle ==
    /\ screen = "Home"
    /\ available_uploaders = <<>>
    /\ history_selected = 1
    /\ show_reupload_menu = FALSE
    /\ reupload_selected = 1
    /\ show_password_prompt = FALSE
    /\ password_buffer = <<>>
    /\ pending_reupload = None
    /\ status_message = None
    /\ keychain = <<>>

\* the history sections of the commands: the mode is Metadata, in which
\* add() writes no file (history.rs:104-106)
HistoryConfigs == [enabled : BOOLEAN, max_entries : {MaxEntries}]

\* the additional_uploaders lists the commands are run with
AdditionalLists ==
    {<<>>, <<"b">>, <<"a", "b">>, <<"b", "b">>, <<"b", "c">>, <<"c", "b">>,
     <<"c", "a", "c">>}

Configs ==
    {c \in [default_uploader : {"a"},
            additional_uploaders : AdditionalLists,
            copy_url_to_clipboard : BOOLEAN,
            clipboard_copy_mode : ClipboardCopyModes,
            history : HistoryConfigs,
            uploads : UploadMaps] :
        <<c.copy_url_to_clipboard, c.clipboard_copy_mode>>
            \in ClipboardSettings}

\* the names a run with this argument and configuration can look up
Mentioned(dest, cfg) ==
    IF IsSome(dest) THEN {Unwrap(dest)}
    ELSE {cfg.default_uploader} \cup Range(cfg.additional_uploaders)

Init ==
    /\ cmd \in {"upload", "watch"}
    /\ pc = "start"
    /\ config \in Configs
    /\ destination \in {None} \cup {Some(n) : n \in ExplicitDestinations}
    \* entries of config.uploads for names the run never looks up are never
    \* read: they are left out
    /\ DOMAIN config.uploads \subseteq Mentioned(destination, config)
    /\ image_data = <<>>
    /\ final_filename = GivenFilename
    /\ uploader_names = <<>>
    /\ uploaders = <<>>
    /\ i = 1
    /\ primary_result = None
    /\ outcome = Running
    /\ history = <<>>
    /\ history_handle = None
    /\ next_id = 1
    /\ clock = 1
    /\ clipboard_text = None
    /\ remote = {}
    /\ last_hash = None
    /\ upload_count = 0
    /\ polls = 0
    /\ COUNTER = 1
    /\ log = <<>>
    /\ attempts = <<>>
    /\ added = <<>>
    /\ history_step = "none"
    /\ files = <<>>
    /\ call = NoCall
    /\ ExtIdle
    /\ TuiIdle

-----------------------------------------------------------------------------
(* The upload command: snapto-cli/src/commands/upload.rs execute *)

Attempt(dest, idx, ok, kind) ==
    [dest |-> dest, idx |-> idx, ok |-> ok, kind |-> kind]

RemoteFile(dest, result, data) ==
    [dest |-> dest, path |-> result.remote_path, data |-> data]

\* upload.rs:35-44: the clipboard cannot be read, or holds no image
UploadNoImage ==
    /\ cmd = "upload" /\ pc = "start"
    /\ \E kind \in {"Clipboard", "NoImageInClipboard", "EmptyImage"} :
           outcome' = Err(kind, "")
    /\ pc' = "done"
    /\ UNCHANGED <<cmd, config, destination, image_data, final_filename,
                   uploader_names, uploaders, i, primary_result, history,
                   history_handle, next_id, clock, clipboard_text, remote,
                   last_hash, upload_count, polls, COUNTER, log, attempts,
                   added, history_step>>
    /\ UNCHANGED <<store_vars, tui_vars, ext_vars>>

\* upload.rs:35-94: image read, file name chosen, destination list built
UploadStart ==
    /\ cmd = "upload" /\ pc = "start"
    /\ \E img \in Images \ {<<>>}, given \in BOOLEAN :
           /\ image_data' = img
           /\ final_filename' = IF given THEN GivenFilename
                                ELSE Generate(COUNTER)
           /\ COUNTER' = IF given THEN COUNTER ELSE COUNTER + 1
    /\ uploader_names' = BuildUploaderNames(destination, config)
    /\ primary_result' = None
    /\ i' = 1
    /\ pc' = "loop"
    /\ UNCHANGED <<cmd, config, destination, uploaders, outcome, history,
                   history_handle, next_id, clock, clipboard_text, remote,
                   last_hash, upload_count, polls, log, attempts, added, history_step>>
    /\ UNCHANGED <<store_vars, tui_vars, ext_vars>>

UploadInLoop ==
    /\ cmd = "upload" /\ pc = "loop" /\ i <= Len(uploader_names)

\* upload.rs:97-100: the destination is not in config.uploads
UploadDestNotFound ==
    /\ UploadInLoop
    /\ LET dest_name == uploader_names[i] IN
       /\ dest_name \notin DOMAIN config.uploads
       /\ log' = Append(log, Event("lookup", dest_name))
       /\ outcome' = Err("DestinationNotFound", dest_name)
    /\ pc' = "done"
    /\ UNCHANGED <<cmd, config, destination, image_data, final_filename,
                   uploader_names, uploaders, i, primary_result, history,
                   history_handle, next_id, clock, clipboard_text, remote,
                   last_hash, upload_count, polls, COUNTER, attempts, added, history_step>>
    /\ UNCHANGED <<store_vars, tui_vars, ext_vars>>

\* upload.rs:102-105: a disabled destination is skipped
UploadDestDisabled ==
    /\ UploadInLoop
    /\ LET dest_name == uploader_names[i] IN
       /\ dest_name \in DOMAIN config.uploads
       /\ IsDisabled(config.uploads[dest_name])
       /\ log' = Append(log, Event("lookup", dest_name))
    /\ i' = i + 1
    /\ UNCHANGED <<cmd, pc, config, destination, image_data, final_filename,
                   uploader_names, uploaders, primary_result, outcome,
                   history, history_handle, next_id, clock, clipboard_text,
                   remote, last_hash, upload_count, polls, COUNTER, attempts,
                   added, history_step>>
    /\ UNCHANGED <<store_vars, tui_vars, ext_vars>>

\* upload.rs:107-108: create_uploader or validate() fails
UploadDestInvalid ==
    /\ UploadInLoop
    /\ LET dest_name == uploader_names[i] IN
       /\ dest_name \in DOMAIN config.uploads
       /\ LET dest == config.uploads[dest_name] IN
          /\ ~IsDisabled(dest)
          /\ IF ~KnownType(dest)
             THEN /\ log' = Append(log, Event("lookup", dest_name))
                  /\ outcome' = Err("UnknownUploaderType", dest_name)
             ELSE /\ ~Validate(dest)
                  /\ log' = log \o <<Event("lookup", dest_name),
                                     Event("validate", dest_name)>>
                  /\ outcome' = Err("Config", dest_name)
    /\ pc' = "done"
    /\ UNCHANGED <<cmd, config, destination, image_data, final_filename,
                   uploader_names, uploaders, i, primary_result, history,
                   history_handle, next_id, clock, clipboard_text, remote,
                   last_hash, upload_count, polls, COUNTER, attempts, added, history_step>>
    /\ UNCHANGED <<store_vars, tui_vars, ext_vars>>

UploadReady(dest_name) ==
    /\ dest_name \in DOMAIN config.uploads
    /\ ~IsDisabled(config.uploads[dest_name])
    /\ KnownType(config.uploads[dest_name])
    /\ Validate(config.uploads[dest_name])

\* upload.rs:120-133: upload() succeeds
UploadDestOk ==
    /\ UploadInLoop
    /\ LET dest_name == uploader_names[i]
           result == UploadResultOf(config.uploads[dest_name], image_data,
                                    final_filename) IN
       /\ UploadReady(dest_name)
       /\ CanSucceed(config.uploads[dest_name], None)
       /\ log' = log \o <<Event("lookup", dest_name),
                          Event("validate", dest_name),
                          Event("upload", dest_name)>>
       /\ attempts' = Append(attempts, Attempt(dest_name, i, TRUE, ""))
       /\ remote' = remote \cup {RemoteFile(dest_name, result, image_data)}
       /\ primary_result' = KeepResult(primary_result, result)
    /\ i' = i + 1
    /\ UNCHANGED <<cmd, pc, config, destination, image_data, final_filename,
                   uploader_names, uploaders, outcome, history,
                   history_handle, next_id, clock, clipboard_text, last_hash,
                   upload_count, polls, COUNTER, added, history_step>>
    /\ UNCHANGED <<store_vars, tui_vars, ext_vars>>

\* mutant: no upload failure is fatal
UploadFailureFatal_Never(idx) == FALSE

\* mutant: every upload failure is fatal
UploadFailureFatal_Always(idx) == TRUE

\* upload.rs:141-143: is the failure of the destination at index i fatal
UploadFailureFatal(idx) == idx = 1

\* upload.rs:134-144: upload() fails
UploadDestFail ==
    /\ UploadInLoop
    /\ LET dest_name == uploader_names[i] IN
       /\ UploadReady(dest_name)
       /\ \E kind \in UploadErrors(config.uploads[dest_name]) :
              /\ attempts' = Append(attempts, Attempt(dest_name, i, FALSE, kind))
              /\ IF UploadFailureFatal(i)
                 THEN /\ outcome' = Err(kind, dest_name)
                      /\ pc' = "done"
                      /\ i' = i
                 ELSE /\ outcome' = outcome
                      /\ pc' = pc
                      /\ i' = i + 1
       /\ log' = log \o <<Event("lookup", dest_name),
                          Event("validate", dest_name),
                          Event("upload", dest_name)>>
    /\ UNCHANGED <<cmd, config, destination, image_data, final_filename,
                   uploader_names, uploaders, primary_result, history,
                   history_handle, next_id, clock, clipboard_text, remote,
                   last_hash, upload_count, polls, COUNTER, added, history_step>>
    /\ UNCHANGED <<store_vars, tui_vars, ext_vars>>

\* upload.rs:149: no destination produced a result
UploadNoResult ==
    /\ cmd = "upload" /\ pc = "loop" /\ i > Len(uploader_names)
    /\ ~IsSome(primary_result)
    /\ outcome' = Err("NoSuccessfulUploads", "")
    /\ pc' = "done"
    /\ UNCHANGED <<cmd, config, destination, image_data, final_filename,
                   uploader_names, uploaders, i, primary_result, history,
                   history_handle, next_id, clock, clipboard_text, remote,
                   last_hash, upload_count, polls, COUNTER, log, attempts,
                   added, history_step>>
    /\ UNCHANGED <<store_vars, tui_vars, ext_vars>>

\* upload.rs:166-188: copy the primary result to the clipboard; a set_text
\* failure is returned from the command
UploadCopy ==
    /\ cmd = "upload" /\ pc = "loop" /\ i > Len(uploader_names)
    /\ IsSome(primary_result)
    /\ LET text == ClipboardTextOf(config.clipboard_copy_mode,
                                   Unwrap(primary_result)) IN
       IF config.copy_url_to_clipboard /\ IsSome(text)
       THEN \E set_ok \in BOOLEAN :
                IF set_ok
                THEN /\ clipboard_text' = text
                     /\ pc' = "history"
                     /\ outcome' = outcome
                ELSE /\ clipboard_text' = clipboard_text
                     /\ pc' = "done"
                     /\ outcome' = Err("Clipboard", "")
       ELSE /\ pc' = "history"
            /\ UNCHANGED <<clipboard_text, outcome>>
    /\ UNCHANGED <<cmd, config, destination, image_data, final_filename,
                   uploader_names, uploaders, i, primary_result, history,
                   history_handle, next_id, clock, remote, last_hash,
                   upload_count, polls, COUNTER, log, attempts, added, history_step>>
    /\ UNCHANGED <<store_vars, tui_vars, ext_vars>>

\* mutant: a failed history step is returned as the dispatch's error
HistoryFailureFatal_Always == TRUE

\* whether a failure of the history step fails the dispatch
\* (upload.rs:192, 204-206; watch.rs:97, 212-214: it never does)
HistoryFailureFatal == FALSE

\* upload.rs:190-210: save the primary result to the history, return Ok
UploadSaveHistory ==
    /\ cmd = "upload" /\ pc = "history"
    /\ IF config.history.enabled
       THEN \E open_ok \in BOOLEAN, how \in AddOutcomes :
                LET entry == MakeEntry(final_filename, Unwrap(primary_result),
                                       PrimaryName(destination, config), clock)
                    row == [entry EXCEPT !.id = next_id] IN
                IF open_ok
                THEN /\ history' = HistoryAdd(history, config.history, entry,
                                              next_id, how)
                     /\ next_id' = IF Inserted(config.history, how)
                                   THEN next_id + 1 ELSE next_id
                     /\ added' = IF Inserted(config.history, how)
                                 THEN Append(added, row) ELSE added
                     /\ clock' = clock + 1
                     /\ history_step' = how
                     /\ outcome' = IF how # "ok" /\ HistoryFailureFatal
                                   THEN Err("History", "") ELSE Ok
                ELSE /\ how = "ok"
                     /\ history_step' = "open_failed"
                     /\ outcome' = IF HistoryFailureFatal
                                   THEN Err("History", "") ELSE Ok
                     /\ UNCHANGED <<history, next_id, added, clock>>
       ELSE /\ outcome' = Ok
            /\ history_step' = "disabled"
            /\ UNCHANGED <<history, next_id, added, clock>>
    /\ pc' = "done"
    /\ UNCHANGED <<cmd, config, destination, image_data, final_filename,
                   uploader_names, uploaders, i, primary_result,
                   history_handle, clipboard_text, remote, last_hash,
                   upload_count, polls, COUNTER, log, attempts>>
    /\ UNCHANGED <<store_vars, tui_vars, ext_vars>>

UploadNext ==
    \/ UploadNoImage
    \/ UploadStart
    \/ UploadDestNotFound
    \/ UploadDestDisabled
    \/ UploadDestInvalid
    \/ UploadDestOk
    \/ UploadDestFail
    \/ UploadNoResult
    \/ UploadCopy
    \/ UploadSaveHistory

-----------------------------------------------------------------------------
(* The watch command: snapto-cli/src/commands/watch.rs execute *)

\* watch.rs:41-57: configuration loaded, destination list built
WatchStart ==
    /\ cmd = "watch" /\ pc = "start"
    /\ uploader_names' = BuildUploaderNames(destination, config)
    /\ uploaders' = <<>>
    /\ i' = 1
    /\ pc' = "setup"
    /\ UNCHANGED <<cmd, config, destination, image_data, final_filename,
                   primary_result, outcome, history, history_handle, next_id,
                   clock, clipboard_text, remote, last_hash, upload_count,
                   polls, COUNTER, log, attempts, added, history_step>>
    /\ UNCHANGED <<store_vars, tui_vars, ext_vars>>

WatchInSetup ==
    /\ cmd = "watch" /\ pc = "setup" /\ i <= Len(uploader_names)

\* watch.rs:60-63: the destination is not in config.uploads
WatchSetupNotFound ==
    /\ WatchInSetup
    /\ LET name == uploader_names[i] IN
       /\ name \notin DOMAIN config.uploads
       /\ log' = Append(log, Event("lookup", name))
       /\ outcome' = Err("DestinationNotFound", name)
    /\ pc' = "done"
    /\ UNCHANGED <<cmd, config, destination, image_data, final_filename,
                   uploader_names, uploaders, i, primary_result, history,
                   history_handle, next_id, clock, clipboard_text, remote,
                   last_hash, upload_count, polls, COUNTER, attempts, added, history_step>>
    /\ UNCHANGED <<store_vars, tui_vars, ext_vars>>

\* watch.rs:65-68: a disabled destination is skipped
WatchSetupDisabled ==
    /\ WatchInSetup
    /\ LET name == uploader_names[i] IN
       /\ name \in DOMAIN config.uploads
       /\ IsDisabled(config.uploads[name])
       /\ log' = Append(log, Event("lookup", name))
    /\ i' = i + 1
    /\ UNCHANGED <<cmd, pc, config, destination, image_data, final_filename,
                   uploader_names, uploaders, primary_result, outcome,
                   history, history_handle, next_id, clock, clipboard_text,
                   remote, last_hash, upload_count, polls, COUNTER, attempts,
                   added, history_step>>
    /\ UNCHANGED <<store_vars, tui_vars, ext_vars>>

\* watch.rs:70-71: create_uploader or validate() fails
WatchSetupInvalid ==
    /\ WatchInSetup
    /\ LET name == uploader_names[i] IN
       /\ name \in DOMAIN config.uploads
       /\ LET dest == config.uploads[name] IN
          /\ ~IsDisabled(dest)
          /\ IF ~KnownType(dest)
             THEN /\ log' = Append(log, Event("lookup", name))
                  /\ outcome' = Err("UnknownUploaderType", name)
             ELSE /\ ~Validate(dest)
                  /\ log' = log \o <<Event("lookup", name),
                                     Event("validate", name)>>
                  /\ outcome' = Err("Config", name)
    /\ pc' = "done"
    /\ UNCHANGED <<cmd, config, destination, image_data, final_filename,
                   uploader_names, uploaders, i, primary_result, history,
                   history_handle, next_id, clock, clipboard_text, remote,
                   last_hash, upload_count, polls, COUNTER, attempts, added, history_step>>
    /\ UNCHANGED <<store_vars, tui_vars, ext_vars>>

\* watch.rs:70-72: the uploader is created, validated and kept
WatchSetupOk ==
    /\ WatchInSetup
    /\ LET name == uploader_names[i] IN
       /\ UploadReady(name)
       /\ log' = log \o <<Event("lookup", name), Event("validate", name)>>
       /\ uploaders' = Append(uploaders,
                              [name |-> name, config |-> config.uploads[name]])
    /\ i' = i + 1
    /\ UNCHANGED <<cmd, pc, config, destination, image_data, final_filename,
                   uploader_names, primary_result, outcome, history,
                   history_handle, next_id, clock, clipboard_text, remote,
                   last_hash, upload_count, polls, COUNTER, attempts, added, history_step>>
    /\ UNCHANGED <<store_vars, tui_vars, ext_vars>>

\* watch.rs:75-77: no uploader passed set-up
WatchNoUploaders ==
    /\ cmd = "watch" /\ pc = "setup" /\ i > Len(uploader_names)
    /\ uploaders = <<>>
    /\ outcome' = Err("NoEnabledUploaders", "")
    /\ pc' = "done"
    /\ UNCHANGED <<cmd, config, destination, image_data, final_filename,
                   uploader_names, uploaders, i, primary_result, history,
                   history_handle, next_id, clock, clipboard_text, remote,
                   last_hash, upload_count, polls, COUNTER, log, attempts,
                   added, history_step>>
    /\ UNCHANGED <<store_vars, tui_vars, ext_vars>>

\* watch.rs:90-102: clipboard manager and history store opened
WatchStarted ==
    /\ cmd = "watch" /\ pc = "setup" /\ i > Len(uploader_names)
    /\ uploaders # <<>>
    /\ \E clipboard_ok \in BOOLEAN, open_ok \in BOOLEAN :
           IF clipboard_ok
           THEN /\ history_handle' = IF config.history.enabled /\ open_ok
                                     THEN Some("history.db") ELSE None
                /\ pc' = "poll"
                /\ outcome' = outcome
           ELSE /\ open_ok
                /\ history_handle' = history_handle
                /\ pc' = "done"
                /\ outcome' = Err("Clipboard", "")
    /\ last_hash' = None
    /\ upload_count' = 0
    /\ UNCHANGED <<cmd, config, destination, image_data, final_filename,
                   uploader_names, uploaders, i, primary_result, history,
                   next_id, clock, clipboard_text, remote, polls, COUNTER,
                   log, attempts, added, history_step>>
    /\ UNCHANGED <<store_vars, tui_vars, ext_vars>>

\* the watch loop runs: as the `watch` command, or on its own from the
\* state the command's set-up leaves
Watching == cmd \in {"watch", "polls"}

\* polls the model lets the loop make
PollLimit == IF cmd = "polls" THEN MaxWatchPolls ELSE MaxPolls

\* mutant: every image read starts a dispatch
ImageChanged_Always(prev, current_hash) == TRUE

\* watch.rs:112: does this image start a dispatch
ImageChanged(prev, current_hash) ==
    IF IsSome(prev) THEN Unwrap(prev) # current_hash ELSE TRUE

\* watch.rs:106-112, 224-233: a poll that starts no dispatch: the clipboard
\* cannot be read or holds no image, or the image is the one seen last
WatchPollIdle ==
    /\ Watching /\ pc = "poll" /\ polls < PollLimit
    /\ \E read \in {None} \cup {Some(img) : img \in Images} :
           /\ \/ ~IsSome(read)
              \/ read = Some(<<>>)
              \/ /\ IsSome(read)
                 /\ ~ImageChanged(last_hash, calculate_hash(Unwrap(read)))
           /\ seen' = [read |-> read,
                       image |-> IF IsSome(read) /\ read # Some(<<>>)
                                 THEN read ELSE seen.image,
                       dispatched |-> FALSE]
    /\ polls' = polls + 1
    /\ UNCHANGED <<cmd, pc, config, destination, image_data, final_filename,
                   uploader_names, uploaders, i, primary_result, outcome,
                   history, history_handle, next_id, clock, clipboard_text,
                   remote, last_hash, upload_count, COUNTER,
                   log, attempts, added, history_step>>
    /\ UNCHANGED <<store_vars, tui_vars, frame, vault_vars, in_flight,
                   race_vars>>

\* watch.rs:106-130: a new image is seen, a dispatch starts
WatchPollNew ==
    /\ Watching /\ pc = "poll" /\ polls < PollLimit
    /\ \E img \in Images \ {<<>>} :
           /\ ImageChanged(last_hash, calculate_hash(img))
           /\ last_hash' = Some(calculate_hash(img))
           /\ image_data' = img
           /\ seen' = [read |-> Some(img), image |-> Some(img),
                       dispatched |-> TRUE]
    /\ final_filename' = Generate(COUNTER)
    /\ COUNTER' = COUNTER + 1
    /\ primary_result' = None
    /\ outcome' = Running
    /\ attempts' = <<>>
    /\ added' = <<>>
    /\ history_step' = "none"
    /\ i' = 1
    /\ polls' = polls + 1
    /\ pc' = "dispatch"
    /\ UNCHANGED <<cmd, config, destination, uploader_names, uploaders,
                   history, history_handle, next_id, clock, clipboard_text,
                   remote, upload_count, log>>
    /\ UNCHANGED <<store_vars, tui_vars, frame, vault_vars, in_flight,
                   race_vars>>

WatchInLoop ==
    /\ Watching /\ pc = "dispatch" /\ i <= Len(uploaders)

\* watch.rs:140-153: upload() succeeds
WatchUploadOk ==
    /\ WatchInLoop
    /\ LET dest_name == uploaders[i].name
           result == UploadResultOf(uploaders[i].config, image_data,
                                    final_filename) IN
       /\ CanSucceed(uploaders[i].config, None)
       /\ log' = Append(log, Event("upload", dest_name))
       /\ attempts' = Append(attempts, Attempt(dest_name, i, TRUE, ""))
       /\ remote' = remote \cup {RemoteFile(dest_name, result, image_data)}
       /\ primary_result' = KeepResult(primary_result, result)
    /\ i' = i + 1
    /\ UNCHANGED <<cmd, pc, config, destination, image_data, final_filename,
                   uploader_names, uploaders, outcome, history,
                   history_handle, next_id, clock, clipboard_text, last_hash,
                   upload_count, polls, COUNTER, added, history_step>>
    /\ UNCHANGED <<store_vars, tui_vars, ext_vars>>

\* watch.rs:154-159: upload() fails; the loop goes on whatever the index
WatchUploadFail ==
    /\ WatchInLoop
    /\ LET dest_name == uploaders[i].name IN
       /\ \E kind \in UploadErrors(uploaders[i].config) :
              attempts' = Append(attempts, Attempt(dest_name, i, FALSE, kind))
       /\ log' = Append(log, Event("upload", dest_name))
    /\ i' = i + 1
    /\ UNCHANGED <<cmd, pc, config, destination, image_data, final_filename,
                   uploader_names, uploaders, primary_result, outcome,
                   history, history_handle, next_id, clock, clipboard_text,
                   remote, last_hash, upload_count, polls, COUNTER, added, history_step>>
    /\ UNCHANGED <<store_vars, tui_vars, ext_vars>>

\* watch.rs:216-218: no upload of the dispatch succeeded
WatchAllFailed ==
    /\ Watching /\ pc = "dispatch" /\ i > Len(uploaders)
    /\ ~IsSome(primary_result)
    /\ outcome' = Err("AllUploadsFailed", "")
    /\ pc' = "poll"
    /\ UNCHANGED <<cmd, config, destination, image_data, final_filename,
                   uploader_names, uploaders, i, primary_result, history,
                   history_handle, next_id, clock, clipboard_text, remote,
                   last_hash, upload_count, polls, COUNTER, log, attempts,
                   added, history_step>>
    /\ UNCHANGED <<store_vars, tui_vars, ext_vars>>

\* watch.rs:164-215: the result is copied to the clipboard (a set_text
\* failure is a warning) and saved to the history (a failure is a warning)
WatchProcess ==
    /\ Watching /\ pc = "dispatch" /\ i > Len(uploaders)
    /\ IsSome(primary_result)
    /\ upload_count' = upload_count + 1
    /\ LET text == ClipboardTextOf(config.clipboard_copy_mode,
                                   Unwrap(primary_result)) IN
       IF config.copy_url_to_clipboard /\ IsSome(text)
       THEN \E set_ok \in BOOLEAN :
                clipboard_text' = IF set_ok THEN text ELSE clipboard_text
       ELSE clipboard_text' = clipboard_text
    /\ IF IsSome(history_handle)
       THEN \E how \in AddOutcomes :
                LET entry == MakeEntry(final_filename, Unwrap(primary_result),
                                       PrimaryName(destination, config), clock)
                    row == [entry EXCEPT !.id = next_id] IN
                /\ history' = HistoryAdd(history, config.history, entry,
                                         next_id, how)
                /\ next_id' = IF Inserted(config.history, how)
                              THEN next_id + 1 ELSE next_id
                /\ added' = IF Inserted(config.history, how)
                            THEN Append(added, row) ELSE added
                /\ clock' = clock + 1
                /\ history_step' = how
                /\ outcome' = IF how # "ok" /\ HistoryFailureFatal
                              THEN Err("History", "") ELSE Ok
       ELSE /\ outcome' = IF config.history.enabled /\ HistoryFailureFatal
                         THEN Err("History", "") ELSE Ok
            /\ history_step' = IF config.history.enabled
                               THEN "open_failed" ELSE "disabled"
            /\ UNCHANGED <<history, next_id, added, clock>>
    /\ pc' = "poll"
    /\ UNCHANGED <<cmd, config, destination, image_data, final_filename,
                   uploader_names, uploaders, i, primary_result,
                   history_handle, remote, last_hash, polls, COUNTER, log,
                   attempts>>
    /\ UNCHANGED <<store_vars, tui_vars, ext_vars>>

WatchNext ==
    \/ WatchStart
    \/ WatchSetupNotFound
    \/ WatchSetupDisabled
    \/ WatchSetupInvalid
    \/ WatchSetupOk
    \/ WatchNoUploaders
    \/ WatchStarted
    \/ WatchPollIdle
    \/ WatchPollNew
    \/ WatchUploadOk
    \/ WatchUploadFail
    \/ WatchAllFailed
    \/ WatchProcess

-----------------------------------------------------------------------------

Next == UploadNext \/ WatchNext

Spec == Init /\ [][Next]_vars

-----------------------------------------------------------------------------
(* The destination list on its own: upload.rs:68-80, watch.rs:43-54 applied  *)
(* to every argument, default name and additional list within the bound.    *)

InitNames ==
    /\ cmd \in {"upload", "watch"}
    /\ pc = "start"
    /\ config \in [default_uploader : Names,
                   additional_uploaders : SeqsUpTo(Names, MaxAdditional),
                   copy_url_to_clipboard : {TRUE},
                   clipboard_copy_mode : {"Auto"},
                   history : [enabled : {TRUE}, max_entries : {MaxEntries}],
                   uploads : {<<>>}]
    /\ destination \in {None} \cup {Some(n) : n \in Names}
    /\ image_data = <<>>
    /\ final_filename = GivenFilename
    /\ uploader_names = <<>>
    /\ uploaders = <<>>
    /\ i = 1
    /\ primary_result = None
    /\ outcome = Running
    /\ history = <<>>
    /\ history_handle = None
    /\ next_id = 1
    /\ clock = 1
    /\ clipboard_text = None
    /\ remote = {}
    /\ last_hash = None
    /\ upload_count = 0
    /\ polls = 0
    /\ COUNTER = 1
    /\ log = <<>>
    /\ attempts = <<>>
    /\ added = <<>>
    /\ history_step = "none"
    /\ files = <<>>
    /\ call = NoCall
    /\ ExtIdle
    /\ TuiIdle

\* upload.rs:68-80, watch.rs:43-54: the list is built
BuildNames ==
    /\ pc = "start"
    /\ uploader_names' = BuildUploaderNames(destination, config)
    /\ pc' = "built"
    /\ UNCHANGED <<cmd, config, destination, image_data, final_filename,
                   uploaders, i, primary_result, outcome, history,
                   history_handle, next_id, clock, clipboard_text, remote,
                   last_hash, upload_count, polls, COUNTER, log, attempts,
                   added, history_step>>
    /\ UNCHANGED <<store_vars, tui_vars, ext_vars>>

NextNames == BuildNames

SpecNames == InitNames /\ [][NextNames]_vars

-----------------------------------------------------------------------------
(* Terminal UI: re-sending a history entry to a destination (app.rs)        *)

\* longest password typed at the prompt
MaxPassword == 1
\* upload() calls made in one run of the UI
MaxUploads == 1

\* characters typed at the prompt
PasswordChars == {"p", "x"}
\* the password the remote hosts accept
ServerPassword == <<"p">>

\* an enabled, valid sftp/ssh destination
RemoteConfig(type, n, key_auth) ==
    [uploader_type |-> type, enabled |-> TRUE, host |-> Some(<<"host", n>>),
     username |-> Some("user"), remote_path |-> Some(<<"/srv/up", n>>),
     base_url |-> None, local_path |-> None,
     use_key_auth |-> Some(key_auth),
     key_path |-> IF key_auth THEN Some("~/.ssh/id") ELSE None]

\* app.rs:246-257: a row as get_recent returns it to the UI
TuiEntry(id, filename, thumb, local) ==
    [id |-> id, filename |-> filename,
     remote_path |-> <<<<"/srv/up", "b">>, filename>>, url |-> None,
     size |-> 1, destination |-> "b", created_at |-> id,
     thumbnail_path |-> IF thumb THEN Some(ThumbnailPath(filename)) ELSE None,
     local_copy_path |-> IF local THEN Some(ImagePath(filename)) ELSE None]

\* the files a history list refers to, all present
FilesOf(rows) ==
    LET paths == {Unwrap(rows[k].thumbnail_path) :
                     k \in {j \in 1..Len(rows) : IsSome(rows[j].thumbnail_path)}}
              \cup {Unwrap(rows[k].local_copy_path) :
                     k \in {j \in 1..Len(rows) : IsSome(rows[j].local_copy_path)}}
    IN  [q \in paths |-> <<1>>]

\* what a run of the UI starts from: config.uploads ("a" is local, "b" a
\* remote destination or absent), the rows of the history table, whether
\* the files they name exist, and the vault
TuiSetup(uploads, rows, present, vault) ==
    [uploads |-> uploads, history |-> rows,
     files |-> IF present THEN FilesOf(rows) ELSE <<>>, keychain |-> vault]

TuiUploads(b) == [n \in {"a", "b"} |-> IF n = "a" THEN LocalConfig("a", TRUE) ELSE b]

TuiSetups ==
    LET shot == <<"shot", ".png">>
        two == <<TuiEntry(2, shot, TRUE, FALSE),
                 TuiEntry(1, <<"password", ".png">>, FALSE, TRUE)>>
        one == <<TuiEntry(1, shot, TRUE, TRUE)>>
        Vault(pw) == [k \in {<<"ssh", "_password_", "b">>} |-> pw]
    IN  {TuiSetup(<<>>, <<>>, TRUE, <<>>),
         TuiSetup(<<>>, one, TRUE, <<>>),
         TuiSetup(TuiUploads(SshConfig("b", FALSE)),
                  <<TuiEntry(1, shot, FALSE, FALSE)>>, TRUE, <<>>),
         TuiSetup(TuiUploads(RemoteConfig("sftp", "b", FALSE)), one, FALSE,
                  <<>>),
         TuiSetup(TuiUploads(SftpNoHostConfig("b", TRUE)), one, TRUE, <<>>),
         TuiSetup(TuiUploads(FtpConfig("b", TRUE)), one, TRUE, <<>>),
         TuiSetup(TuiUploads(RemoteConfig("ssh", "b", TRUE)), one, TRUE,
                  <<>>)}
        \cup {TuiSetup(TuiUploads(RemoteConfig("sftp", "b", FALSE)), two,
                       TRUE, v) :
                  v \in {<<>>, Vault(ServerPassword), Vault(<<"x">>)}}

\* mutant: the vault key is the destination name alone
KeychainKey_NameOnly(uploader_name) == <<uploader_name>>

\* app.rs:1205, 1244: format!("ssh_password_{}", uploader_name), the vault
\* key of a destination's password
KeychainKey(uploader_name) == <<"ssh", "_password_", uploader_name>>

\* app.rs:268-273, 901-907: the enabled entries of config.uploads, in the
\* iteration order of the HashMap
AvailableOrders(uploads) ==
    LET enabled == {n \in DOMAIN uploads : uploads[n].enabled} IN
    {o \in SeqsUpTo(enabled, Cardinality(enabled)) :
        /\ Len(o) = Cardinality(enabled)
        /\ Range(o) = enabled}

AvailableUploaders(uploads) ==
    {[k \in 1..Len(o) |-> <<o[k], uploads[o[k]]>>] : o \in AvailableOrders(uploads)}

\* thiserror Display of the SnaptoError variants (error.rs:26-69)
ErrorPrefix(kind) ==
    CASE kind = "SshConnection" -> "SSH connection error: "
      [] kind = "SshAuthentication" -> "SSH authentication error: "
      [] kind = "Sftp" -> "SFTP error: "
      [] kind = "Upload" -> "Upload error: "
      [] OTHER -> "Configuration error: "

\* format!("{}", e): the prefix of the variant, then the text it carries
ErrorText(kind, detail) == <<ErrorPrefix(kind)>> \o detail

UploadOk == [ok |-> TRUE, kind |-> "", text |-> <<>>]
UploadError(kind, detail) ==
    [ok |-> FALSE, kind |-> kind, text |-> ErrorText(kind, detail)]

\* sftp.rs:84-151, ssh.rs:91-150: the ways authentication can end. A key or
\* the agent is accepted or not; a password is accepted when it is the
\* server's
AuthResults(c, password) ==
    LET by_password == {Unwrap(password) = ServerPassword} IN
    IF c.use_key_auth = Some(TRUE)
    THEN {TRUE} \cup (IF IsSome(password) THEN by_password ELSE {FALSE})
    ELSE IF IsSome(password) THEN by_password
    ELSE IF c.uploader_type = "ssh" THEN BOOLEAN
    ELSE {FALSE}

\* what upload() of a valid uploader can return (local.rs:60-88,
\* sftp.rs:168-240, ssh.rs:214-300)
UploadOutcomes(c, password, filename) ==
    IF c.uploader_type = "local"
    THEN {UploadOk,
          UploadError("Upload", <<"Error al escribir ">>
                                    \o Unwrap(c.local_path) \o filename
                                    \o <<": os error">>)}
    ELSE {UploadError("SshConnection", <<"Connection failed: os error">>)}
         \cup (IF FALSE \in AuthResults(c, password)
               THEN {UploadError("SshAuthentication",
                                 <<"Password authentication failed">>)}
               ELSE {})
         \cup (IF TRUE \in AuthResults(c, password)
               THEN {UploadOk,
                     UploadError("Sftp", <<"Failed to write file: os error">>)}
               ELSE {})

\* the pieces of text above that contain "authentication", "password" or
\* "Authentication"
AuthWordPieces == {"SSH authentication error: ", "password"}

\* mutant: no error text is taken for an authentication failure
IsAuthErrorText_Never(text) == FALSE

\* app.rs:1336: the test that decides whether the prompt is opened
IsAuthErrorText(text) == \E k \in 1..Len(text) : text[k] \in AuthWordPieces

\* app.rs:1177-1186: "~/" is replaced by the home directory
ExpandHome(path) ==
    IF path # <<>> /\ path[1] = "~" THEN <<"/home/user">> \o Tail(path)
    ELSE path

Pending(entry, uploader_name, uploader_config, file_data) ==
    [entry |-> entry, uploader_name |-> uploader_name,
     uploader_config |-> uploader_config, file_data |-> file_data]

\* one upload() call of the UI, as recorded
TuiAttempt(dest, ok, kind, password, retry) ==
    [dest |-> dest, idx |-> 1, ok |-> ok, kind |-> kind,
     password |-> password, retry |-> retry]

\* app.rs:1266-1352 App::execute_upload, for the result r of upload() and
\* with or without a tokio runtime: what it returns and leaves behind
ExecuteUpload(entry, uploader_name, uploader_config, password, r, runtime_ok) ==
    IF ~KnownType(uploader_config)
    THEN [success |-> FALSE, validated |-> FALSE, called |-> FALSE,
          opens_prompt |-> FALSE,
          status |-> <<"Unknown uploader type: ",
                       uploader_config.uploader_type>>]
    ELSE IF ~Validate(uploader_config)
    THEN [success |-> FALSE, validated |-> TRUE, called |-> FALSE,
          opens_prompt |-> FALSE,
          status |-> <<"Invalid uploader config: ", "Configuration error: ">>]
    ELSE IF ~runtime_ok
    THEN [success |-> FALSE, validated |-> TRUE, called |-> FALSE,
          opens_prompt |-> FALSE, status |-> <<"Failed to create runtime: ">>]
    ELSE IF r.ok
    THEN [success |-> TRUE, validated |-> TRUE, called |-> TRUE,
          opens_prompt |-> FALSE,
          status |-> <<"Re-uploaded to ", uploader_name>>]
    ELSE IF IsAuthErrorText(r.text)
    THEN [success |-> FALSE, validated |-> TRUE, called |-> TRUE,
          opens_prompt |-> TRUE,
          status |-> <<"Authentication failed. Enter password:">>]
    ELSE [success |-> FALSE, validated |-> TRUE, called |-> TRUE,
          opens_prompt |-> FALSE,
          status |-> <<"Upload failed: ">> \o r.text]

\* what the UI never writes
tui_frame == <<cmd, pc, config, destination, image_data, final_filename,
               uploader_names, uploaders, i, primary_result, outcome,
               history, history_handle, next_id, clock, last_hash,
               upload_count, polls, COUNTER, log, added, history_step,
               files, call, available_uploaders, ext_vars>>

\* App::new on a configuration, a history and a vault left by earlier runs
InitTui ==
    /\ cmd = "tui"
    /\ pc = "run"
    /\ \E setup \in TuiSetups :
           /\ config = [default_uploader |-> "a",
                        additional_uploaders |-> <<>>,
                        copy_url_to_clipboard |-> TRUE,
                        clipboard_copy_mode |-> "Auto",
                        history |-> [enabled |-> TRUE,
                                     max_entries |-> MaxEntries],
                        uploads |-> setup.uploads]
           /\ history = setup.history
           /\ files = setup.files
           /\ keychain = setup.keychain
    /\ destination = None
    /\ image_data = <<>>
    /\ final_filename = GivenFilename
    /\ uploader_names = <<>>
    /\ uploaders = <<>>
    /\ i = 1
    /\ primary_result = None
    /\ outcome = Running
    /\ history_handle = None
    /\ next_id = 1
    /\ clock = 1
    /\ clipboard_text = None
    /\ remote = {}
    /\ last_hash = None
    /\ upload_count = 0
    /\ polls = 0
    /\ COUNTER = 1
    /\ log = <<>>
    /\ attempts = <<>>
    /\ added = <<>>
    /\ history_step = "none"
    /\ call = NoCall
    /\ ExtIdle
    /\ screen = "Home"
    /\ available_uploaders \in AvailableUploaders(config.uploads)
    /\ history_selected = 1
    /\ show_reupload_menu = FALSE
    /\ reupload_selected = 1
    /\ show_password_prompt = FALSE
    /\ password_buffer = <<>>
    /\ pending_reupload = None
    /\ status_message = None

TuiRunning == cmd = "tui"

\* app.rs:14-37 Screen::next, Screen::prev
ScreenNext(sc) ==
    CASE sc = "Home" -> "History" [] sc = "History" -> "Settings"
      [] sc = "Settings" -> "Upload" [] OTHER -> "Home"

ScreenPrev(sc) ==
    CASE sc = "Home" -> "Upload" [] sc = "History" -> "Home"
      [] sc = "Settings" -> "History" [] OTHER -> "Settings"

\* app.rs:326-333: Tab and Shift-Tab change the screen
KeyTab ==
    /\ TuiRunning
    /\ \E back \in BOOLEAN :
           screen' = IF back THEN ScreenPrev(screen) ELSE ScreenNext(screen)
    /\ UNCHANGED <<tui_frame, history_selected,
                   show_reupload_menu, reupload_selected, show_password_prompt,
                   password_buffer, pending_reupload, status_message, keychain,
                   clipboard_text, remote, attempts>>

\* handle_history_key with the password prompt open
AtPrompt == TuiRunning /\ screen = "History" /\ show_password_prompt

\* handle_history_key with the re-upload menu open
AtMenu ==
    /\ TuiRunning /\ screen = "History"
    /\ ~show_password_prompt /\ show_reupload_menu

\* handle_history_key in the list
AtList ==
    /\ TuiRunning /\ screen = "History"
    /\ ~show_password_prompt /\ ~show_reupload_menu

\* app.rs:1266-1352 called with these arguments from perform_reupload
\* (retry = FALSE) or from execute_reupload_with_password (retry = TRUE,
\* app.rs:1241-1263: on success the password is stored in the vault)
ExecuteUploadStep(entry, uploader_name, uploader_config, file_data, password, retry) ==
    \E r \in IF KnownType(uploader_config) /\ Validate(uploader_config)
              THEN UploadOutcomes(uploader_config, password, entry.filename)
              ELSE {UploadOk},
       runtime_ok \in BOOLEAN, copied \in BOOLEAN, set_ok \in BOOLEAN :
        LET x == ExecuteUpload(entry, uploader_name, uploader_config,
                               password, r, runtime_ok)
            result == UploadResultOf(uploader_config, file_data,
                                     entry.filename)
            saved == retry /\ x.success /\ set_ok
        IN
        /\ attempts' =
               IF x.called
               THEN Append(attempts, TuiAttempt(uploader_name, r.ok, r.kind,
                                                password, retry))
               ELSE attempts
        /\ remote' = IF x.success
                     THEN remote \cup {RemoteFile(uploader_name, result,
                                                  file_data)}
                     ELSE remote
        /\ clipboard_text' =
               IF x.success /\ copied
               THEN IF IsSome(result.url) THEN result.url
                    ELSE Some(result.remote_path)
               ELSE clipboard_text
        /\ show_password_prompt' =
               IF x.opens_prompt THEN TRUE
               ELSE IF retry THEN FALSE ELSE show_password_prompt
        /\ password_buffer' =
               IF x.opens_prompt \/ retry THEN <<>> ELSE password_buffer
        /\ pending_reupload' =
               IF x.opens_prompt
               THEN Some(Pending(entry, uploader_name, uploader_config,
                                 file_data))
               ELSE IF retry THEN None ELSE pending_reupload
        /\ keychain' =
               IF saved
               THEN [k \in DOMAIN keychain \cup {KeychainKey(uploader_name)} |->
                        IF k = KeychainKey(uploader_name)
                        THEN Unwrap(password) ELSE keychain[k]]
               ELSE keychain
        /\ status_message' =
               IF retry /\ x.success /\ ~set_ok
               THEN Some(x.status \o <<" (Warning: failed to save password)">>)
               ELSE Some(x.status)

\* a branch that only reports
StatusOnly(msg) ==
    /\ status_message' = Some(msg)
    /\ UNCHANGED <<show_password_prompt, password_buffer, pending_reupload,
                   keychain, clipboard_text, remote, attempts>>

\* app.rs:1131-1147 show_reupload_selector ('r' in the list)
ListKeyReupload ==
    /\ AtList
    /\ IF history = <<>>
       THEN /\ status_message' = Some(<<"No entry selected">>)
            /\ UNCHANGED <<show_reupload_menu, reupload_selected>>
       ELSE IF available_uploaders = <<>>
       THEN /\ status_message' = Some(<<"No enabled uploaders available">>)
            /\ UNCHANGED <<show_reupload_menu, reupload_selected>>
       ELSE IF /\ history_selected \in 1..Len(history)
               /\ history[history_selected].local_copy_path = None
               /\ history[history_selected].thumbnail_path = None
       THEN /\ status_message' =
                   Some(<<"No local copy available for re-upload">>)
            /\ UNCHANGED <<show_reupload_menu, reupload_selected>>
       ELSE /\ show_reupload_menu' = TRUE
            /\ reupload_selected' = 1
            /\ UNCHANGED status_message
    /\ UNCHANGED <<tui_frame, screen, history_selected,
                   show_password_prompt, password_buffer, pending_reupload,
                   keychain, clipboard_text, remote, attempts>>

\* app.rs:413-423: Up/k and Down/j in the list
ListKeyMove ==
    /\ AtList
    /\ \E down \in BOOLEAN :
           history_selected' =
                  IF down
                  THEN IF history_selected < Len(history)
                       THEN history_selected + 1 ELSE history_selected
                  ELSE IF history_selected > 1
                       THEN history_selected - 1 ELSE history_selected
    /\ UNCHANGED <<tui_frame, screen, show_reupload_menu,
                   reupload_selected, show_password_prompt, password_buffer,
                   pending_reupload, status_message, keychain, clipboard_text,
                   remote, attempts>>

\* app.rs:389-399: Up/k and Down/j in the menu
MenuKeyMove ==
    /\ AtMenu
    /\ \E down \in BOOLEAN :
           reupload_selected' =
                  IF down
                  THEN IF reupload_selected < Len(available_uploaders)
                       THEN reupload_selected + 1 ELSE reupload_selected
                  ELSE IF reupload_selected > 1
                       THEN reupload_selected - 1 ELSE reupload_selected
    /\ UNCHANGED <<tui_frame, screen, history_selected,
                   show_reupload_menu, show_password_prompt, password_buffer,
                   pending_reupload, status_message, keychain, clipboard_text,
                   remote, attempts>>

\* app.rs:403-405: Esc or q closes the menu
MenuKeyEsc ==
    /\ AtMenu
    /\ show_reupload_menu' = FALSE
    /\ UNCHANGED <<tui_frame, screen, history_selected,
                   reupload_selected, show_password_prompt, password_buffer,
                   pending_reupload, status_message, keychain, clipboard_text,
                   remote, attempts>>

\* app.rs:1149-1226 perform_reupload (Enter in the menu)
MenuKeyEnter ==
    /\ AtMenu
    /\ Len(attempts) < MaxUploads
    /\ show_reupload_menu' = FALSE
    /\ IF history_selected \notin 1..Len(history)
       THEN StatusOnly(<<"No entry selected">>)
       ELSE IF reupload_selected \notin 1..Len(available_uploaders)
       THEN StatusOnly(<<"No uploader selected">>)
       ELSE
       LET entry == history[history_selected]
           uploader_name == available_uploaders[reupload_selected][1]
           uploader_config == available_uploaders[reupload_selected][2]
           file_path == IF IsSome(entry.local_copy_path)
                        THEN entry.local_copy_path ELSE entry.thumbnail_path
       IN
       IF file_path = None
       THEN StatusOnly(<<"No local file available for re-upload">>)
       ELSE IF ExpandHome(Unwrap(file_path)) \notin DOMAIN files
       THEN StatusOnly(<<"Failed to read file: ">>)
       ELSE
       LET file_data == files[ExpandHome(Unwrap(file_path))] IN
       IF uploader_config.uploader_type = "local"
       THEN ExecuteUploadStep(entry, uploader_name, uploader_config,
                              file_data, None, FALSE)
       ELSE \E get_ok \in BOOLEAN :
               LET keychain_key == KeychainKey(uploader_name)
                   stored_password ==
                       IF get_ok /\ keychain_key \in DOMAIN keychain
                       THEN Some(keychain[keychain_key]) ELSE None
               IN
               IF IsSome(stored_password)
               THEN ExecuteUploadStep(entry, uploader_name, uploader_config,
                                      file_data, stored_password, FALSE)
               ELSE /\ pending_reupload' =
                           Some(Pending(entry, uploader_name, uploader_config,
                                        file_data))
                    /\ show_password_prompt' = TRUE
                    /\ password_buffer' = <<>>
                    /\ status_message' = Some(<<"Enter SSH password:">>)
                    /\ UNCHANGED <<keychain, clipboard_text, remote,
                                   attempts>>
    /\ UNCHANGED <<tui_frame, screen, history_selected,
                   reupload_selected>>

\* mutant: Esc closes the prompt and keeps the pending operation
PromptKeyEsc_KeepsPending ==
    /\ AtPrompt
    /\ show_password_prompt' = FALSE
    /\ password_buffer' = <<>>
    /\ status_message' = Some(<<"Upload cancelled">>)
    /\ UNCHANGED <<tui_frame, screen, history_selected,
                   show_reupload_menu, reupload_selected, pending_reupload,
                   keychain, clipboard_text, remote, attempts>>

\* app.rs:366-371: Esc at the prompt
PromptKeyEsc ==
    /\ AtPrompt
    /\ show_password_prompt' = FALSE
    /\ password_buffer' = <<>>
    /\ pending_reupload' = None
    /\ status_message' = Some(<<"Upload cancelled">>)
    /\ UNCHANGED <<tui_frame, screen, history_selected,
                   show_reupload_menu, reupload_selected, keychain,
                   clipboard_text, remote, attempts>>

\* app.rs:375-380: Backspace and a character at the prompt
PromptKeyEdit ==
    /\ AtPrompt
    /\ \/ password_buffer' =
              IF password_buffer = <<>> THEN <<>>
              ELSE SubSeq(password_buffer, 1, Len(password_buffer) - 1)
       \/ \E c \in PasswordChars :
             /\ Len(password_buffer) < MaxPassword
             /\ password_buffer' = Append(password_buffer, c)
    /\ UNCHANGED <<tui_frame, screen, history_selected,
                   show_reupload_menu, reupload_selected, show_password_prompt,
                   pending_reupload, status_message, keychain, clipboard_text,
                   remote, attempts>>

\* app.rs:1228-1264 execute_reupload_with_password (Enter at the prompt)
PromptKeyEnter ==
    /\ AtPrompt
    /\ Len(attempts) < MaxUploads
    /\ IF pending_reupload = None
       THEN /\ show_password_prompt' = FALSE
            /\ password_buffer' = <<>>
            /\ status_message' = Some(<<"No pending upload">>)
            /\ UNCHANGED <<pending_reupload, keychain, clipboard_text,
                           remote, attempts>>
       ELSE LET pending == Unwrap(pending_reupload) IN
            ExecuteUploadStep(pending.entry, pending.uploader_name,
                              pending.uploader_config, pending.file_data,
                              Some(password_buffer), TRUE)
    /\ UNCHANGED <<tui_frame, screen, history_selected,
                   show_reupload_menu, reupload_selected>>

NextTui ==
    \/ KeyTab
    \/ ListKeyReupload
    \/ ListKeyMove
    \/ MenuKeyMove
    \/ MenuKeyEsc
    \/ MenuKeyEnter
    \/ PromptKeyEsc
    \/ PromptKeyEdit
    \/ PromptKeyEnter

SpecTui == InitTui /\ [][NextTui]_vars

-----------------------------------------------------------------------------
(* History store: HistoryManager on its table and its files (history.rs)    *)

\* HistoryManager calls made in one run
MaxCalls == 3

\* HistoryMode (config.rs)
HistoryModes == {"Metadata", "Thumbnails", "Full"}

\* file names of the entries callers pass to add()
StoreFilenames == {<<"shot", ".png">>, <<"a", ":", "b">>}

\* file name and creation time of the entries callers pass to add(): times
\* repeat and need not grow from one call to the next
StoreArguments ==
    {<<<<"shot", ".png">>, 1>>, <<<<"shot", ".png">>, 2>>,
     <<<<"a", ":", "b">>, 1>>}

\* the entry a caller passes to add(); created_at is the caller's
StoreEntry(filename, now) ==
    [id |-> 0, filename |-> filename,
     remote_path |-> <<<<"/srv/up", "b">>, filename>>, url |-> None,
     size |-> 1, destination |-> "b", created_at |-> now,
     thumbnail_path |-> None, local_copy_path |-> None]

\* history.rs:270-286 generate_thumbnail: the image resized, as PNG
Thumbnail(data) == <<"png200", data>>

\* fs::write: the file at path holds content
WriteFile(fs, path, content) ==
    [q \in DOMAIN fs \cup {path} |-> IF q = path THEN content ELSE fs[q]]

\* fs::remove_file on each of the paths; the result is ignored, and the
\* files in stuck stay
RemoveFiles(fs, paths, stuck) ==
    [q \in DOMAIN fs \ (paths \ stuck) |-> fs[q]]

\* the files a row names
RowFiles(r) ==
    (IF IsSome(r.thumbnail_path) THEN {Unwrap(r.thumbnail_path)} ELSE {})
        \cup (IF IsSome(r.local_copy_path) THEN {Unwrap(r.local_copy_path)}
              ELSE {})

\* mutant: the rows are ordered by rowid alone
Before_ById(s, r, desc_id) == IF desc_id THEN s.id > r.id ELSE s.id < r.id

\* s comes before r in `ORDER BY created_at DESC`; rows with equal
\* created_at come in either rowid order
Before(s, r, desc_id) ==
    \/ s.created_at > r.created_at
    \/ /\ s.created_at = r.created_at
       /\ IF desc_id THEN s.id > r.id ELSE s.id < r.id

\* history.rs:238-249: the 1-based position of r in
\* `ORDER BY created_at DESC`
Rank(rows, r, desc_id) ==
    Cardinality({s \in Range(rows) : Before(s, r, desc_id)}) + 1

\* mutant: the query returns every row
ToDeleteLen_All(rows, max_entries) == Len(rows)

\* history.rs:238-249: how many rows `LIMIT -1 OFFSET max_entries` returns
ToDeleteLen(rows, max_entries) ==
    IF Len(rows) <= max_entries THEN 0 ELSE Len(rows) - max_entries

\* history.rs:238-249: the first upto rows `LIMIT -1 OFFSET max_entries`
\* returns
ToDelete(rows, max_entries, desc_id, upto) ==
    {r \in Range(rows) :
        Rank(rows, r, desc_id) - max_entries \in 1..upto}

\* mutant: cleanup keeps the rows it was to delete
CleanupRun_KeepsRows(rows, fs, max_entries, desc_id, fail_at, stuck) ==
    [rows |-> rows, files |-> fs, ok |-> TRUE,
     value |-> ToDeleteLen(rows, max_entries)]

\* history.rs:232-267 HistoryManager::cleanup on the rows and files given.
\* fail_at = 0: no statement fails; fail_at = k: the DELETE of the k-th row
\* to delete fails, after that row's files were removed
CleanupRun(rows, fs, max_entries, desc_id, fail_at, stuck) ==
    IF max_entries = 0
    THEN [rows |-> rows, files |-> fs, ok |-> TRUE, value |-> 0]
    ELSE
    LET count == ToDeleteLen(rows, max_entries)
        visited == ToDelete(rows, max_entries, desc_id,
                            IF fail_at = 0 THEN count ELSE fail_at)
        deleted == ToDelete(rows, max_entries, desc_id,
                            IF fail_at = 0 THEN count ELSE fail_at - 1)
    IN  [rows |-> FilterRows(rows, Range(rows) \ deleted),
         files |-> RemoveFiles(fs, UNION {RowFiles(r) : r \in visited},
                               stuck),
         ok |-> fail_at = 0,
         value |-> IF fail_at = 0 THEN count ELSE 0]

\* the statements of cleanup that can fail on these rows
CleanupFailures(rows, max_entries, desc_id) ==
    IF max_entries = 0 THEN {0}
    ELSE 0..ToDeleteLen(rows, max_entries)

\* the files whose removal fails: none, or all (a read-only directory)
StuckSets(fs) == {{}, DOMAIN fs}

\* the orders `ORDER BY created_at DESC` can give to rows of equal
\* created_at: newest rowid first or oldest rowid first
TieOrders(rows) ==
    IF \E j, k \in 1..Len(rows) :
           j # k /\ rows[j].created_at = rows[k].created_at
    THEN BOOLEAN ELSE {TRUE}

\* what a HistoryManager call returned: Ok(value), or Err from the
\* statement named by failed; n and adds count the calls and the add()
\* calls that returned Ok so far, prev is the call made before this one
Call(op, failed, value) ==
    [op |-> op, ok |-> failed = "none", value |-> value, failed |-> failed,
     n |-> call.n + 1,
     adds |-> call.adds + (IF op = "add" /\ failed = "none" THEN 1 ELSE 0),
     prev |-> call.op]

\* mutant: add() does not look at history.enabled
StoreEnabled_Always(hcfg) == TRUE

\* history.rs:87-89: add() returns Ok(0) at once unless history is enabled
StoreEnabled(hcfg) == hcfg.enabled

\* history.rs:95-102: add() saves a thumbnail in the modes Thumbnails and
\* Full when it is given the image
SavesThumbnail(hcfg, data) ==
    IsSome(data) /\ hcfg.mode \in {"Thumbnails", "Full"}

\* mutant: no mode keeps a verbatim copy
SavesFullImage_Never(hcfg, data) == FALSE

\* history.rs:99-102: add() saves a verbatim copy in the mode Full when it
\* is given the image
SavesFullImage(hcfg, data) == IsSome(data) /\ hcfg.mode = "Full"

\* what the store never writes
store_frame == <<cmd, pc, config, destination, image_data, final_filename,
                 uploader_names, uploaders, i, primary_result, outcome,
                 history_handle, clock, clipboard_text, remote, last_hash,
                 upload_count, polls, COUNTER, log, attempts, added,
                 history_step, tui_vars, ext_vars>>

\* rows an earlier run left when max_entries was larger
PriorRows ==
    <<[StoreEntry(<<"shot", ".png">>, 2) EXCEPT !.id = 1],
      [StoreEntry(<<"shot", ".png">>, 1) EXCEPT !.id = 2]>>

\* the history sections drawn and what the callers of the run pass as
\* image_data: without an image the mode has no effect, and a disabled
\* store reads neither max_entries nor the mode
StoreSetups ==
    LET enabled == [enabled : {TRUE}, max_entries : {0, 1, MaxEntries},
                    mode : HistoryModes]
    IN  {[history |-> h, data |-> Some(<<1>>), rows |-> <<>>] :
            h \in {e \in enabled : e.max_entries = 0 => e.mode = "Full"}}
            \cup {[history |-> h, data |-> None, rows |-> <<>>] :
                      h \in {e \in enabled : e.mode = "Metadata"}}
            \cup {[history |-> [enabled |-> FALSE, max_entries |-> 1,
                                mode |-> "Full"],
                    data |-> Some(<<1>>), rows |-> <<>>],
                  [history |-> [enabled |-> TRUE, max_entries |-> 1,
                                mode |-> "Metadata"],
                    data |-> None, rows |-> PriorRows]}

\* HistoryManager::new (history.rs:32-52) on an empty directory or on the
\* table of an earlier run; in this specification image_data is the
\* Option<&[u8]> passed to add()
InitStore ==
    /\ cmd = "store"
    /\ pc = "run"
    /\ \E setup \in StoreSetups :
           /\ config = [history |-> setup.history]
           /\ image_data = setup.data
           /\ history = setup.rows
           /\ next_id = Len(setup.rows) + 1
    /\ destination = None
    /\ final_filename = GivenFilename
    /\ uploader_names = <<>>
    /\ uploaders = <<>>
    /\ i = 1
    /\ primary_result = None
    /\ outcome = Running
    /\ history_handle = None
    /\ clock = 1
    /\ clipboard_text = None
    /\ remote = {}
    /\ last_hash = None
    /\ upload_count = 0
    /\ polls = 0
    /\ COUNTER = 1
    /\ log = <<>>
    /\ attempts = <<>>
    /\ added = <<>>
    /\ history_step = "none"
    /\ files = <<>>
    /\ call = NoCall
    /\ ExtIdle
    /\ TuiIdle
    /\ keychain = <<>>

StoreRunning == cmd = "store" /\ call.n < MaxCalls

\* history.rs:86-132 HistoryManager::add(entry, image_data). fail names the
\* statement that returns an error: the thumbnail, the verbatim copy, the
\* INSERT, or none of them
StoreAdd ==
    /\ StoreRunning
    /\ \E argument \in StoreArguments,
          fail \in {"none", "thumbnail", "image", "insert"} :
        LET hcfg == config.history
            filename == argument[1]
            now == argument[2]
            data == image_data
            entry == StoreEntry(filename, now)
            with_thumb == SavesThumbnail(hcfg, data)
            with_image == SavesFullImage(hcfg, data)
            fs1 == IF with_thumb /\ fail # "thumbnail"
                   THEN WriteFile(files, ThumbnailPath(filename),
                                  Thumbnail(Unwrap(data)))
                   ELSE files
            fs2 == IF with_image /\ fail \notin {"thumbnail", "image"}
                   THEN WriteFile(fs1, ImagePath(filename), Unwrap(data))
                   ELSE fs1
            row == [entry EXCEPT
                       !.id = next_id,
                       !.thumbnail_path =
                           IF with_thumb THEN Some(ThumbnailPath(filename))
                           ELSE None,
                       !.local_copy_path =
                           IF with_image THEN Some(ImagePath(filename))
                           ELSE None]
        IN
        IF ~StoreEnabled(hcfg)
        THEN /\ fail = "none"
             /\ call' = Call("add", "none", 0)
             /\ UNCHANGED <<history, files, next_id>>
        ELSE IF fail = "thumbnail"
        THEN /\ with_thumb
             /\ call' = Call("add", "thumbnail", 0)
             /\ UNCHANGED <<history, files, next_id>>
        ELSE IF fail = "image"
        THEN /\ with_image
             /\ call' = Call("add", "image", 0)
             /\ files' = fs1
             /\ UNCHANGED <<history, next_id>>
        ELSE IF fail = "insert"
        THEN /\ call' = Call("add", "insert", 0)
             /\ files' = fs2
             /\ UNCHANGED <<history, next_id>>
        ELSE \E desc_id \in TieOrders(Append(history, row)),
                stuck \in StuckSets(fs2) :
             \E fail_at \in CleanupFailures(Append(history, row),
                                            hcfg.max_entries, desc_id) :
                LET c == CleanupRun(Append(history, row), fs2,
                                    hcfg.max_entries, desc_id, fail_at,
                                    stuck)
                IN  /\ history' = c.rows
                    /\ files' = c.files
                    /\ next_id' = next_id + 1
                    /\ call' = Call("add",
                                    IF c.ok THEN "none" ELSE "cleanup",
                                    IF c.ok THEN next_id ELSE 0)
    /\ UNCHANGED store_frame

\* history.rs:232-267 HistoryManager::cleanup called on its own; the query
\* can fail before anything is removed
StoreCleanup ==
    /\ StoreRunning
    /\ \/ /\ config.history.max_entries # 0
          /\ call' = Call("cleanup", "query", 0)
          /\ UNCHANGED <<history, files>>
       \/ \E desc_id \in TieOrders(history), stuck \in StuckSets(files) :
          \E fail_at \in CleanupFailures(history, config.history.max_entries,
                                         desc_id) :
             LET c == CleanupRun(history, files, config.history.max_entries,
                                 desc_id, fail_at, stuck)
             IN  /\ history' = c.rows
                 /\ files' = c.files
                 /\ call' = Call("cleanup",
                                 IF c.ok THEN "none" ELSE "delete", c.value)
    /\ UNCHANGED <<next_id, store_frame>>

NextStore ==
    \/ StoreAdd
    \/ StoreCleanup

SpecHistory == InitStore /\ [][NextStore]_vars

-----------------------------------------------------------------------------
(* Properties *)

\* the primary destination of the command: the head of the destination list
Primary == uploader_names[1]

\* the destination list of the command has been built
Started == uploader_names # <<>>

\* the current dispatch has returned
DispatchEnded ==
    \/ pc = "done"
    \/ cmd = "watch" /\ pc = "poll" /\ outcome.status # "running"

Configured(n) == n \in DOMAIN config.uploads

\* position of a name in the destination list
PositionOf(n) == CHOOSE k \in 1..Len(uploader_names) : uploader_names[k] = n

\* section 4.1 of the specification: the fields each transport requires
ConfigAcceptable(c) ==
    /\ c.uploader_type \in {"local", "sftp", "ssh"}
    /\ c.uploader_type = "local" => c.local_path # None
    /\ c.uploader_type # "local" =>
           /\ c.host # None /\ c.username # None /\ c.remote_path # None
           /\ c.use_key_auth = Some(TRUE) => c.key_path # None

UploadErrorKinds == {"Upload", "SshConnection", "SshAuthentication", "Sftp"}

PrimaryUploadFailed ==
    \E k \in 1..Len(attempts) :
        attempts[k].dest = Primary /\ ~attempts[k].ok

PrimaryUploadSucceeded ==
    \E k \in 1..Len(attempts) :
        attempts[k].dest = Primary /\ attempts[k].ok

\* C1: in the upload command a failed upload() on the primary destination
\* (index 0) ends the dispatch with that error, and no upload() follows it.
C1_PrimaryFailureIsFatal ==
    cmd = "upload" =>
        \A k \in 1..Len(attempts) :
            (attempts[k].idx = 1 /\ ~attempts[k].ok) =>
                /\ k = Len(attempts)
                /\ pc = "done"
                /\ outcome = Err(attempts[k].kind, attempts[k].dest)

C1_Witness ==
    /\ cmd = "upload" /\ pc = "done"
    /\ Len(uploader_names) >= 2
    /\ UploadReady(uploader_names[2])
    /\ Len(attempts) = 1 /\ attempts[1].idx = 1 /\ ~attempts[1].ok

\* C2: a dispatch whose primary destination's upload failed writes no
\* history row, in the upload command and in the watch loop.
C2_NoHistoryRowAfterPrimaryFailure ==
    (Started /\ PrimaryUploadFailed) => added = <<>>

C4_DestinationList ==
    Started =>
        LET names == uploader_names
            additional == config.additional_uploaders
            FirstAt(n) == CHOOSE k \in 1..Len(additional) :
                              /\ additional[k] = n
                              /\ \A j \in 1..(k - 1) : additional[j] # n
        IN  /\ Len(names) >= 1
            /\ names[1] = IF destination # None THEN destination[1]
                          ELSE config.default_uploader
            /\ \A j, k \in 1..Len(names) : j # k => names[j] # names[k]
            /\ destination # None => Len(names) = 1
            /\ destination = None =>
                   /\ {names[k] : k \in 1..Len(names)} =
                          {names[1]} \cup
                          {additional[k] : k \in 1..Len(additional)}
                   /\ \A j, k \in 2..Len(names) :
                          j < k => FirstAt(names[j]) < FirstAt(names[k])

C4_Witness ==
    /\ Started
    /\ destination = None
    /\ config.default_uploader = "c"
    /\ config.additional_uploaders \in {<<"c", "b">>, <<"b", "b">>}
    /\ uploader_names = <<"c", "b">>

\* C5: with a disabled primary destination the dispatch fails and upload()
\* is called on no destination.
C5_DisabledPrimaryFailsDispatch ==
    (Started /\ Configured(Primary) /\ ~config.uploads[Primary].enabled) =>
        /\ attempts = <<>>
        /\ outcome.status # "ok"

AllDisabled ==
    \A k \in 1..Len(uploader_names) :
        /\ Configured(uploader_names[k])
        /\ ~config.uploads[uploader_names[k]].enabled

\* C6: when every destination of the list is disabled the dispatch fails
\* with the no-destination error, upload() is never called and no history
\* row is written.
C6_AllDisabledFails ==
    (Started /\ AllDisabled) =>
        /\ attempts = <<>>
        /\ added = <<>>
        /\ history = <<>>
        /\ remote = {}
        /\ pc \in {"loop", "setup", "done"}
        /\ pc = "done" =>
               outcome \in {Err("NoSuccessfulUploads", ""),
                            Err("NoEnabledUploaders", "")}

C6_Witness ==
    /\ Started /\ AllDisabled
    /\ Len(uploader_names) >= 2
    /\ pc = "done"
    /\ outcome.status = "err"

\* C7: on every destination the calls come in the order lookup, validate(),
\* upload(); a missing configuration or a validate() error ends the dispatch
\* at once, and upload() is never called on a destination that is missing,
\* disabled or rejected by validate(), nor on a destination after it.
C7_LookupValidateUpload ==
    \A k \in 1..Len(log) :
        LET d == log[k].dest IN
        /\ log[k].op = "upload" =>
               /\ Configured(d)
               /\ config.uploads[d].enabled
               /\ ConfigAcceptable(config.uploads[d])
               /\ \E j \in 1..(k - 1) :
                      /\ log[j] = Event("validate", d)
                      /\ \E m \in 1..(j - 1) : log[m] = Event("lookup", d)
        /\ log[k].op = "validate" =>
               \E m \in 1..(k - 1) : log[m] = Event("lookup", d)
        /\ (log[k].op = "lookup" /\ ~Configured(d)) =>
               /\ k = Len(log)
               /\ pc = "done"
               /\ outcome = Err("DestinationNotFound", d)
        /\ (log[k].op \in {"lookup", "validate"} /\ Configured(d)
                /\ config.uploads[d].enabled
                /\ ~ConfigAcceptable(config.uploads[d])) =>
               /\ k >= Len(log) - 1
               /\ \A j \in (k + 1)..Len(log) : log[j] = Event("validate", d)
               /\ pc = "done"
               /\ outcome.status = "err" /\ outcome.dest = d
               /\ outcome.kind \in {"Config", "UnknownUploaderType"}

C7_Witness ==
    /\ cmd = "upload" /\ pc = "done"
    /\ Len(uploader_names) = 3
    /\ outcome = Err("Config", uploader_names[2])
    /\ UploadReady(uploader_names[3])
    /\ log = <<Event("lookup", Primary), Event("validate", Primary),
               Event("upload", Primary),
               Event("lookup", uploader_names[2]),
               Event("validate", uploader_names[2])>>

BothSucceeded ==
    /\ Len(attempts) >= 2
    /\ attempts[1].dest = Primary /\ attempts[1].ok
    /\ attempts[2].ok

\* C8: when the primary a and a second destination b both succeed, the
\* primary result (copied to the clipboard, saved to the history) is a's,
\* and the dispatch writes one history row, with destination a and a's url.
C8_PrimaryResultIsFirst ==
    BothSucceeded =>
        LET result_a == UploadResultOf(config.uploads[Primary], image_data,
                                       final_filename) IN
        /\ primary_result = Some(result_a)
        /\ (cmd = "upload" /\ clipboard_text # None) =>
               \/ clipboard_text = result_a.url
               \/ clipboard_text = Some(result_a.remote_path)
        /\ Len(added) <= 1
        /\ \A k \in 1..Len(added) :
               /\ added[k].destination = Primary
               /\ added[k].url = result_a.url
               /\ added[k].remote_path = result_a.remote_path
        /\ (DispatchEnded /\ outcome = Ok
                /\ history_step \in {"ok", "err_cleanup"}) =>
               Len(added) = 1

C8_Witness ==
    /\ BothSucceeded
    /\ DispatchEnded /\ outcome = Ok
    /\ Len(added) = 1
    /\ added[1].destination = "a"
    /\ added[1].url = Some(<<<<"https://files", "a">>, final_filename>>)
    /\ attempts[2].dest = "b"

\* C9: the size of the history row of a dispatch is the byte length of the
\* payload uploaded: the uploader reports the length of the data it was
\* given and the dispatch copies it.
C9_HistorySizeIsPayloadLength ==
    /\ primary_result # None => primary_result[1].size = Len(image_data)
    /\ \A k \in 1..Len(added) : added[k].size = Len(image_data)
    /\ \A k \in 1..Len(added), j \in 1..Len(history) :
           history[j].id = added[k].id => history[j].size = Len(image_data)

C9_Witness ==
    /\ DispatchEnded /\ outcome = Ok
    /\ Len(added) = 1
    /\ Len(image_data) = MaxLen
    /\ added[1].size = MaxLen
    /\ \E j \in 1..Len(history) : history[j] = added[1]

\* the file every successful upload() of the current dispatch wrote
UploadedFiles ==
    {[dest |-> attempts[k].dest,
      path |-> UploadResultOf(config.uploads[attempts[k].dest], image_data,
                              final_filename).remote_path,
      data |-> image_data] : k \in {j \in 1..Len(attempts) : attempts[j].ok}}

\* C10: when the history store cannot be opened or the row cannot be added
\* after a successful upload, the dispatch still returns success and the
\* uploaded files stay where they are.
C10_HistoryFailureNotFatal ==
    history_step \in {"open_failed", "err_before", "err_cleanup"} =>
        /\ DispatchEnded
        /\ outcome = Ok
        /\ primary_result # None
        /\ UploadedFiles # {}
        /\ UploadedFiles \subseteq remote

C10_Witness ==
    /\ history_step \in {"open_failed", "err_before"}
    /\ outcome = Ok
    /\ added = <<>>
    /\ remote # {}

-----------------------------------------------------------------------------
(* Properties of the re-send of the terminal UI *)

\* this step of the UI called upload()
UploadCalled == cmd = "tui" /\ Len(attempts') = Len(attempts) + 1

\* the upload() call this step made
ThisAttempt == attempts'[Len(attempts')]

\* the operation Enter in the menu starts: the selected entry, the selected
\* destination and the bytes of the entry's file
SelectedOperation ==
    LET entry == history[history_selected]
        file_path == IF IsSome(entry.local_copy_path)
                     THEN entry.local_copy_path ELSE entry.thumbnail_path
    IN  Pending(entry, available_uploaders[reupload_selected][1],
                available_uploaders[reupload_selected][2],
                files[ExpandHome(Unwrap(file_path))])

\* C11: when upload() of a re-send returns an authentication error, the
\* password prompt is shown and the pending operation (entry, destination
\* name, destination configuration, file data) is kept.
C11_AuthErrorOpensPrompt ==
    [][(UploadCalled /\ ~ThisAttempt.ok
            /\ ThisAttempt.kind = "SshAuthentication") =>
           /\ show_password_prompt'
           /\ password_buffer' = <<>>
           /\ pending_reupload' =
                  IF ThisAttempt.retry THEN pending_reupload
                  ELSE Some(SelectedOperation)]_vars

C11_Witness ==
    /\ cmd = "tui"
    /\ Len(attempts) = 1
    /\ ~attempts[1].ok /\ attempts[1].kind = "SshAuthentication"
    /\ ~attempts[1].retry
    /\ show_password_prompt
    /\ pending_reupload =
           Some(Pending(history[history_selected], "b",
                        RemoteConfig("sftp", "b", FALSE), <<1>>))

\* C12: the upload is retried once with the submitted password; when that
\* retry fails the error is shown, the prompt stays closed and no pending
\* operation is left to retry.
C12_FailedRetryEndsFlow ==
    [][(UploadCalled /\ ThisAttempt.retry /\ ~ThisAttempt.ok) =>
           /\ ~show_password_prompt'
           /\ pending_reupload' = None]_vars

\* the vault key the specification names for a destination
ClaimedKey(transport, n) == <<transport, "_password_", n>>

\* this step stored the password of its upload() call under key
VaultWrite(key) ==
    keychain' = [k \in DOMAIN keychain \cup {key} |->
                    IF k = key THEN Unwrap(ThisAttempt.password)
                    ELSE keychain[k]]

\* this step called upload() with the password the vault holds under key
VaultRead(key) ==
    /\ key \in DOMAIN keychain
    /\ ThisAttempt.password = Some(keychain[key])

PromptDismissed ==
    /\ AtPrompt
    /\ ~show_password_prompt'
    /\ status_message' = Some(<<"Upload cancelled">>)

\* C14: Esc at the password prompt closes it, discards the typed password
\* and the pending operation, calls no upload() and writes nothing to the
\* vault.
C14_EscCancels ==
    [][PromptDismissed =>
           /\ password_buffer' = <<>>
           /\ pending_reupload' = None
           /\ attempts' = attempts
           /\ remote' = remote
           /\ keychain' = keychain]_vars

C14_Witness ==
    /\ cmd = "tui"
    /\ status_message = Some(<<"Upload cancelled">>)
    /\ ~show_password_prompt
    /\ pending_reupload = None
    /\ password_buffer = <<>>
    /\ Len(attempts) = 1 /\ attempts[1].kind = "SshAuthentication"
    /\ keychain = [k \in {KeychainKey("b")} |-> <<"x">>]

\* C15: a re-send whose upload() fails with an error other than an
\* authentication error is reported as a failure and does not open the
\* password prompt, whatever its message says.
C15_OnlyAuthErrorOpensPrompt ==
    [][(UploadCalled /\ ~ThisAttempt.ok
            /\ ThisAttempt.kind # "SshAuthentication") =>
           /\ ~show_password_prompt'
           /\ pending_reupload' = None]_vars

-----------------------------------------------------------------------------
(* Properties of the history store *)

\* this step is a call of op that returned Ok
Returned(op) == cmd = "store" /\ call'.n = call.n + 1 /\ call'.op = op

ReturnedOk(op) == Returned(op) /\ call'.ok

Min(a, b) == IF a < b THEN a ELSE b

C18_CleanupIdempotent ==
    [][ReturnedOk("cleanup") =>
           /\ call'.value = Len(history) - Len(history')
           /\ (call.op = "cleanup" /\ call.ok) =>
                  /\ call'.value = 0
                  /\ history' = history
                  /\ files' = files]_vars

C18_Witness ==
    /\ cmd = "store"
    /\ call.op = "cleanup" /\ call.ok /\ call.value = 0
    /\ call.prev = "cleanup" /\ call.n = 2
    /\ config.history.max_entries = 1
    /\ Len(history) = 1
    /\ next_id = 3

\* C19: with history disabled add() returns Ok(0) and changes neither the
\* rows nor the files; with history enabled an add() that returns Ok
\* returns an id greater than 0.
C19_DisabledAddIsNoOp ==
    [][Returned("add") =>
           IF config.history.enabled
           THEN call'.ok => call'.value > 0
           ELSE /\ call'.ok /\ call'.value = 0
                /\ history' = history
                /\ files' = files
                /\ next_id' = next_id]_vars

C19_Witness ==
    /\ cmd = "store"
    /\ ~config.history.enabled
    /\ call.op = "add" /\ call.ok /\ call.value = 0
    /\ call.n = MaxCalls
    /\ history = <<>> /\ files = <<>>

\* the row this add() inserted, when the cleanup at its end left it
NewRow == {r \in Range(history') : r.id = next_id}

\* C20: add() writes the files of the mode before the INSERT: the
\* thumbnail in the modes Thumbnails and Full, the verbatim copy in the
\* mode Full, nothing in the mode Metadata; the row names the files
\* written; when writing a file fails add() returns an error and no row is
\* inserted.
C20_FilesBeforeRow ==
    [][(Returned("add") /\ config.history.enabled /\ IsSome(image_data)) =>
           LET mode == config.history.mode
               thumb == mode \in {"Thumbnails", "Full"}
               copy == mode = "Full"
           IN
           /\ call'.failed \in {"thumbnail", "image"} =>
                  /\ history' = history
                  /\ next_id' = next_id
           /\ call'.failed = "thumbnail" => files' = files
           /\ mode = "Metadata" => DOMAIN files' \subseteq DOMAIN files
           /\ \A r \in NewRow :
                  /\ IsSome(r.thumbnail_path) <=> thumb
                  /\ IsSome(r.local_copy_path) <=> copy
           /\ (call'.failed = "insert"
                   \/ (call'.ok /\ Len(history') = Len(history) + 1)) =>
                  \E filename \in StoreFilenames :
                      /\ call'.ok => \E r \in NewRow : r.filename = filename
                      /\ thumb =>
                             /\ ThumbnailPath(filename) \in DOMAIN files'
                             /\ files'[ThumbnailPath(filename)] =
                                    Thumbnail(Unwrap(image_data))
                      /\ copy =>
                             /\ ImagePath(filename) \in DOMAIN files'
                             /\ files'[ImagePath(filename)] =
                                    Unwrap(image_data)]_vars

C20_Witness ==
    /\ cmd = "store"
    /\ config.history.mode = "Full"
    /\ call.op = "add" /\ call.failed = "insert"
    /\ history = <<>>
    /\ DOMAIN files = {ThumbnailPath(<<"a", ":", "b">>),
                       ImagePath(<<"a", ":", "b">>)}
    /\ ThumbnailPath(<<"a", ":", "b">>)[2][2] = <<"a", "_", "b">>

-----------------------------------------------------------------------------
(* The history store, row by row: HistoryManager::delete and ::cleanup     *)
(* statement by statement, ::search and ::get_by_id                        *)
(* (snapto-core/src/history.rs). File names, urls and queries are          *)
(* sequences of characters here.                                           *)

\* history.rs:175 `LIMIT 100`
SearchLimit == 100

\* the characters of file names, urls and queries
TextChars == {"a", "A", "b", "%", "_"}

\* the queries passed to search()
Queries ==
    {<<>>, <<"a">>, <<"A">>, <<"b", "a">>, <<"_">>, <<"%">>, <<"a", "%">>}

\* SQLite's LIKE folds the case of ASCII letters
FoldCase(c) == IF c = "a" THEN "A" ELSE c

\* history.rs:171-173 `LIKE ?1`: `%` in the pattern stands for any run of
\* characters, `_` for any one character, a letter for itself in either case
RECURSIVE Like(_, _)
Like(pattern, text) ==
    IF pattern = <<>> THEN text = <<>>
    ELSE IF Head(pattern) = "%"
         THEN \/ Like(Tail(pattern), text)
              \/ text # <<>> /\ Like(pattern, Tail(text))
         ELSE /\ text # <<>>
              /\ \/ Head(pattern) = "_"
                 \/ FoldCase(Head(pattern)) = FoldCase(Head(text))
              /\ Like(Tail(pattern), Tail(text))

\* history.rs:168 format!("%{}%", query)
SearchPattern(query) == <<"%">> \o query \o <<"%">>

\* history.rs:173 `filename LIKE ?1 OR url LIKE ?1`; a NULL url matches
\* nothing
SearchMatches(r, query) ==
    \/ Like(SearchPattern(query), r.filename)
    \/ IsSome(r.url) /\ Like(SearchPattern(query), Unwrap(r.url))

\* the rows given in `ORDER BY created_at DESC` order
OrderByCreatedDesc(rows, desc_id) ==
    [k \in 1..Len(rows) |->
        CHOOSE r \in Range(rows) : Rank(rows, r, desc_id) = k]

\* history.rs:167-199 HistoryManager::search on the rows given
Search(rows, query, desc_id) ==
    LET found == OrderByCreatedDesc(
                     FilterRows(rows, {r \in Range(rows) :
                                          SearchMatches(r, query)}),
                     desc_id)
    IN  SubSeq(found, 1, IF Len(found) < SearchLimit THEN Len(found)
                         ELSE SearchLimit)

\* history.rs:345-376 HistoryManager::get_by_id on the rows given:
\* QueryReturnedNoRows is Ok(None)
GetById(rows, id) ==
    IF \E r \in Range(rows) : r.id = id
    THEN Some(CHOOSE r \in Range(rows) : r.id = id)
    ELSE None

\* mutant: the DELETE removes nothing
DeleteFrom_Nothing(rows, id) == rows

\* history.rs:224, 263 `DELETE FROM history WHERE id = ?1`
DeleteFrom(rows, id) == FilterRows(rows, {r \in Range(rows) : r.id # id})

\* a row add() stored under the mode given
StoredRow(id, filename, url, now, mode) ==
    [StoreEntry(filename, now) EXCEPT
        !.id = id, !.url = url,
        !.thumbnail_path =
            IF mode = "Metadata" THEN None
            ELSE Some(ThumbnailPath(filename)),
        !.local_copy_path =
            IF mode = "Full" THEN Some(ImagePath(filename)) ELSE None]

\* the tables earlier runs left, and history.max_entries of this run
RowSetups ==
    {[rows |-> <<StoredRow(1, <<"a", "b">>, None, 1, "Full"),
                 StoredRow(2, <<"A", "b">>, Some(<<"b", "a">>), 2,
                           "Thumbnails"),
                 StoredRow(3, <<"b">>, None, 2, "Metadata")>>,
      max_entries |-> 2],
     [rows |-> <<StoredRow(1, <<"a", "b">>, None, 1, "Full"),
                 StoredRow(2, <<"a", "b">>, None, 1, "Full")>>,
      max_entries |-> 1],
     [rows |-> <<StoredRow(1, <<"a", "_">>, Some(<<"%">>), 1, "Metadata")>>,
      max_entries |-> 0]}

\* the ids passed to delete() and get_by_id(): of rows, and of no row
RowIds == 1..4

\* HistoryManager::new (history.rs:32-52) on the table and the files of an
\* earlier run
InitRows ==
    /\ cmd = "rows"
    /\ pc = "run"
    /\ \E setup \in RowSetups :
           /\ config = [history |-> [enabled |-> TRUE, mode |-> "Full",
                                     max_entries |-> setup.max_entries]]
           /\ history = setup.rows
           /\ next_id = Len(setup.rows) + 1
           /\ files = FilesOf(setup.rows)
    /\ destination = None
    /\ image_data = None
    /\ final_filename = GivenFilename
    /\ uploader_names = <<>>
    /\ uploaders = <<>>
    /\ i = 1
    /\ primary_result = None
    /\ outcome = Running
    /\ history_handle = None
    /\ clock = 1
    /\ clipboard_text = None
    /\ remote = {}
    /\ last_hash = None
    /\ upload_count = 0
    /\ polls = 0
    /\ COUNTER = 1
    /\ log = <<>>
    /\ attempts = <<>>
    /\ added = <<>>
    /\ history_step = "none"
    /\ call = NoCall
    /\ ExtIdle
    /\ TuiIdle

\* what the row operations never write
rows_frame == <<cmd, pc, config, destination, image_data, final_filename,
                uploader_names, uploaders, i, primary_result, outcome,
                history_handle, next_id, clock, clipboard_text, remote,
                last_hash, upload_count, polls, COUNTER, log, attempts,
                added, history_step, tui_vars, vault_vars, seen, in_flight,
                race_vars>>

\* no call is in progress and the run may make another one
RowsIdle == cmd = "rows" /\ frame = None /\ call.n < MaxCalls

\* a call is at the statement named
RowsAt(at) == cmd = "rows" /\ IsSome(frame) /\ Unwrap(frame).at = at

\* the (id, thumbnail_path, local_copy_path) a SELECT of delete/cleanup
\* returns for a row
Selected(r) ==
    [id |-> r.id, thumb |-> r.thumbnail_path, local |-> r.local_copy_path]

\* history.rs:167-199 HistoryManager::search(query)
RowsSearch ==
    /\ RowsIdle
    /\ \E query \in Queries, desc_id \in TieOrders(history),
          failed \in {"none", "query"} :
           call' = Call("search", failed,
                        [query |-> query,
                         rows |-> IF failed = "none"
                                  THEN Search(history, query, desc_id)
                                  ELSE <<>>])
    /\ UNCHANGED <<rows_frame, history, files, frame>>

\* history.rs:345-376 HistoryManager::get_by_id(id)
RowsGetById ==
    /\ RowsIdle
    /\ \E id \in RowIds, failed \in {"none", "query"} :
           call' = Call("get_by_id", failed,
                        [id |-> id,
                         entry |-> IF failed = "none"
                                   THEN GetById(history, id) ELSE None])
    /\ UNCHANGED <<rows_frame, history, files, frame>>

\* history.rs:203-211 delete(id), the SELECT: prepare() failing returns the
\* error; a query_row() that is not Ok (no such row, or an error) skips the
\* removal of the files and goes on to the DELETE
RowsDeleteSelect ==
    /\ RowsIdle
    /\ \E id \in RowIds, failed \in {"none", "prepare", "query_row"} :
           LET found == failed = "none" /\ IsSome(GetById(history, id))
               row == IF found THEN Selected(Unwrap(GetById(history, id)))
                      ELSE [id |-> id, thumb |-> None, local |-> None]
           IN  IF failed = "prepare"
               THEN /\ call' = Call("delete", "prepare",
                                    [id |-> id, tried |-> {}])
                    /\ frame' = None
               ELSE /\ frame' = Some([op |-> "delete", at |-> "thumb",
                                      queue |-> <<row>>, count |-> 1,
                                      arg |-> id, tried |-> {}])
                    /\ call' = call
    /\ UNCHANGED <<rows_frame, history, files>>

\* history.rs:233-249 cleanup(), the SELECT of the rows beyond max_entries
RowsCleanupSelect ==
    /\ RowsIdle
    /\ LET max_entries == config.history.max_entries
       IN  IF max_entries = 0
           THEN /\ call' = Call("cleanup", "none", [count |-> 0])
                /\ frame' = None
           ELSE \E desc_id \in TieOrders(history),
                   failed \in {"none", "query"} :
                    LET count == ToDeleteLen(history, max_entries)
                        sorted == OrderByCreatedDesc(history, desc_id)
                        to_delete == [k \in 1..count |->
                                         Selected(sorted[max_entries + k])]
                    IN  IF failed = "query"
                        THEN /\ call' = Call("cleanup", "query",
                                             [count |-> 0])
                             /\ frame' = None
                        ELSE IF count = 0
                        THEN /\ call' = Call("cleanup", "none",
                                             [count |-> 0])
                             /\ frame' = None
                        ELSE /\ frame' = Some([op |-> "cleanup",
                                               at |-> "thumb",
                                               queue |-> to_delete,
                                               count |-> count,
                                               arg |-> 0, tried |-> {}])
                             /\ call' = call
    /\ UNCHANGED <<rows_frame, history, files>>

\* history.rs:213-221, 253-259: fs::remove_file on the path the current row
\* names, if it names one; the result is ignored
RemoveNamed(path, next_at) ==
    LET f == Unwrap(frame)
    IN  IF IsSome(path)
        THEN \E stuck \in StuckSets(files) :
                 /\ files' = RemoveFiles(files, {Unwrap(path)}, stuck)
                 /\ frame' = Some([f EXCEPT
                                      !.at = next_at,
                                      !.tried = @ \cup {Unwrap(path)}])
        ELSE /\ files' = files
             /\ frame' = Some([f EXCEPT !.at = next_at])

\* history.rs:215-217, 254-256: the thumbnail of the current row
RowsRemoveThumb ==
    /\ RowsAt("thumb")
    /\ RemoveNamed(Head(Unwrap(frame).queue).thumb, "local")
    /\ UNCHANGED <<rows_frame, history, call>>

\* history.rs:219-221, 257-259: the verbatim copy of the current row
RowsRemoveLocal ==
    /\ RowsAt("local")
    /\ RemoveNamed(Head(Unwrap(frame).queue).local, "row")
    /\ UNCHANGED <<rows_frame, history, call>>

\* history.rs:224-226, 262-266: the DELETE of the current row; an error is
\* returned at once, otherwise the loop goes on or the call returns Ok
RowsDeleteRow ==
    /\ RowsAt("row")
    /\ LET f == Unwrap(frame)
           result == IF f.op = "delete"
                     THEN [id |-> f.arg, tried |-> f.tried]
                     ELSE [count |-> f.count]
       IN  \E failed \in {"none", "delete"} :
               IF failed = "delete"
               THEN /\ history' = history
                    /\ frame' = None
                    /\ call' = Call(f.op, "delete",
                                    IF f.op = "delete" THEN result
                                    ELSE [count |-> 0])
               ELSE /\ history' = DeleteFrom(history, Head(f.queue).id)
                    /\ IF Len(f.queue) = 1
                       THEN /\ frame' = None
                            /\ call' = Call(f.op, "none", result)
                       ELSE /\ frame' = Some([f EXCEPT
                                                 !.at = "thumb",
                                                 !.queue = Tail(@)])
                            /\ call' = call
    /\ UNCHANGED <<rows_frame, files>>

NextRows ==
    \/ RowsSearch
    \/ RowsGetById
    \/ RowsDeleteSelect
    \/ RowsCleanupSelect
    \/ RowsRemoveThumb
    \/ RowsRemoveLocal
    \/ RowsDeleteRow

SpecRows == InitRows /\ [][NextRows]_vars

-----------------------------------------------------------------------------
(* Properties of the row operations *)

\* a delete(id) call is in progress
Deleting == IsSome(frame) /\ Unwrap(frame).op = "delete"

\* this step is the return of a call in progress with Ok
ReturnsOk == call'.n = call.n + 1 /\ call'.ok

\* C21: delete(id) that returns Ok has removed the row with that id, whether
\* or not the removal of its thumbnail or copy succeeded, has left every
\* other row as it was, and get_by_id(id) then finds no entry; until it
\* returns the table is as it was.
C21_DeleteRemovesRow ==
    [][Deleting =>
          LET id == Unwrap(frame).arg
          IN  IF ReturnsOk
              THEN /\ Range(history') = {r \in Range(history) : r.id # id}
                   /\ Len(history') = Cardinality(Range(history'))
                   /\ GetById(history', id) = None
              ELSE history' = history]_vars

\* C21 witness: delete(id) returned Ok, a file it tried to remove is still
\* there, and the table has no row with that id.
C21_Witness ==
    /\ call.op = "delete" /\ call.ok /\ frame = None
    /\ \E p \in call.value.tried : p \in DOMAIN files
    /\ \A r \in Range(history) : r.id # call.value.id

\* q is a run of consecutive characters of text, compared as they are
Substring(q, text) ==
    \E k \in 0..(Len(text) - Len(q)) : SubSeq(text, k + 1, k + Len(q)) = q

\* the row's filename or url contains q, case-sensitively
ContainsQuery(r, q) ==
    Substring(q, r.filename) \/ (IsSome(r.url) /\ Substring(q, Unwrap(r.url)))

\* the rows are in newest-first order
NewestFirst(rows) ==
    \A j, k \in 1..Len(rows) :
        j < k => rows[j].created_at >= rows[k].created_at

\* C22: search(query) that returns Ok returns exactly the rows whose
\* filename or url contains query as a case-sensitive substring, each once,
\* newest first, and at most 100 of them.
C22_SearchIsCaseSensitiveSubstring ==
    (call.op = "search" /\ call.ok) =>
        LET found == call.value.rows
        IN  /\ Range(found) =
                   {r \in Range(history) : ContainsQuery(r, call.value.query)}
            /\ Len(found) = Cardinality(Range(found))
            /\ NewestFirst(found)
            /\ Len(found) <= 100

\* the rows this step removes from the table
RowsRemoved == {r \in Range(history) : \A s \in Range(history') : s.id # r.id}

\* C30: whenever a step of delete(id) or of the eviction removes a row from
\* the table, fs::remove_file was called before on the thumbnail and on the
\* copy the row names.
C30_FilesTriedBeforeRow ==
    [][\A r \in RowsRemoved :
           IsSome(frame) /\ RowFiles(r) \subseteq Unwrap(frame).tried]_vars

-----------------------------------------------------------------------------
(* The credential vault: KeychainManager (snapto-core/src/keychain.rs) on  *)
(* its two backends. A JSON text is the tuple <<opening bracket, content,  *)
(* closing bracket>>; a ciphertext is the record of what produced it.      *)

\* keychain.rs:85 the key under which the system backend keeps its key list
IndexKey == <<"__snapto_keys__">>

\* the keys the callers use (app.rs:1205, sftp.rs:155, ssh.rs:40)
VaultKeys == {KeychainKey("a"), KeychainKey("b")}

\* the values stored
VaultValues == {<<"p">>, <<"q">>}

\* the salts SaltString::generate draws
Salts == {1, 2}

\* the nonce OsRng fills
Nonces == {1}

\* keychain.rs:323-332 get_master_password
MasterPassword(env) ==
    IF IsSome(env) THEN Unwrap(env) ELSE "snapto-default-password"

\* keychain.rs:306-320 derive_key: Argon2 of the password under the salt
DeriveKey(password, salt) == <<password, salt>>

\* keychain.rs:266-282 encrypt: AES-256-GCM of data under the derived key
Encrypt(data, password, salt, nonce) ==
    [key |-> DeriveKey(password, salt), nonce |-> nonce, plain |-> data,
     intact |-> TRUE]

\* keychain.rs:285-303 decrypt: the plain text, or an error when the key or
\* the nonce differ from those of the encryption or the bytes were changed
Decrypt(data, password, salt, nonce) ==
    IF data.intact /\ data.key = DeriveKey(password, salt)
       /\ data.nonce = nonce
    THEN [ok |-> TRUE, text |-> data.plain]
    ELSE [ok |-> FALSE, text |-> <<>>]

\* the orders in which a HashMap over these keys can be walked
KeyOrders ==
    {s \in [1..Cardinality(VaultKeys) -> VaultKeys] :
        \A j, k \in DOMAIN s : j # k => s[j] # s[k]}

\* HashMap::keys(): the keys of the store in the order given
StoreKeys(store, order) == SelectSeq(order, LAMBDA k : k \in DOMAIN store)

\* keychain.rs:235 serde_json::to_string of the HashMap
SerializeStore(store, order) ==
    LET keys == StoreKeys(store, order)
    IN  <<"{", [j \in 1..Len(keys) |-> <<keys[j], store[keys[j]]>>], "}">>

\* keychain.rs:216-217 serde_json::from_str::<HashMap<String, String>>: of
\* two members with one key the later one stays
ParseStore(json) ==
    IF Len(json) = 3 /\ json[1] = "{" /\ json[3] = "}"
    THEN LET pairs == json[2]
             last(k) == CHOOSE j \in 1..Len(pairs) :
                            /\ pairs[j][1] = k
                            /\ \A l \in (j + 1)..Len(pairs) : pairs[l][1] # k
         IN  [ok |-> TRUE,
              store |-> [k \in {pairs[j][1] : j \in 1..Len(pairs)} |->
                            pairs[last(k)][2]]]
    ELSE [ok |-> FALSE, store |-> <<>>]

\* keychain.rs:257 serde_json::to_string_pretty of an EncryptedStore
SerializeEncryptedStore(salt, nonce, data) ==
    <<"{", [salt |-> salt, nonce |-> nonce, data |-> data], "}">>

\* keychain.rs:201-202 serde_json::from_str::<EncryptedStore>
ParseEncryptedStore(content) ==
    IF Len(content) = 3 /\ content[1] = "{" /\ content[3] = "}"
    THEN [ok |-> TRUE, value |-> content[2]]
    ELSE [ok |-> FALSE, value |-> <<>>]

\* mutant: a file that does not parse or decrypt is read as an empty store
LoadEncryptedStore_ResetsCorrupt(file, env) ==
    IF file = None THEN [ok |-> TRUE, store |-> <<>>]
    ELSE LET es == ParseEncryptedStore(Unwrap(file))
             d == Decrypt(es.value.data, MasterPassword(env), es.value.salt,
                          es.value.nonce)
         IN  IF es.ok /\ d.ok /\ ParseStore(d.text).ok
             THEN ParseStore(d.text)
             ELSE [ok |-> TRUE, store |-> <<>>]

\* keychain.rs:191-220 load_encrypted_store: no file is an empty store; a
\* file that does not parse, does not decrypt or does not hold a map is an
\* error
LoadEncryptedStore(file, env) ==
    IF file = None THEN [ok |-> TRUE, store |-> <<>>]
    ELSE LET es == ParseEncryptedStore(Unwrap(file))
         IN  IF ~es.ok THEN [ok |-> FALSE, store |-> <<>>]
             ELSE LET d == Decrypt(es.value.data, MasterPassword(env),
                                   es.value.salt, es.value.nonce)
                  IN  IF ~d.ok THEN [ok |-> FALSE, store |-> <<>>]
                      ELSE ParseStore(d.text)

\* keychain.rs:223-263 save_encrypted_store: the whole map serialised,
\* encrypted under a fresh salt and nonce, and written over the file
SaveEncryptedStore(store, env, salt, nonce, order) ==
    Some(SerializeEncryptedStore(
             salt, nonce,
             Encrypt(SerializeStore(store, order), MasterPassword(env),
                     salt, nonce)))

\* mutant: insert keeps the value of a key that is already there
StoreInsert_KeepsOld(store, key, value) ==
    [k \in DOMAIN store \cup {key} |->
        IF k \in DOMAIN store THEN store[k] ELSE value]

\* keychain.rs:173 HashMap::insert
StoreInsert(store, key, value) ==
    [k \in DOMAIN store \cup {key} |-> IF k = key THEN value ELSE store[k]]

\* mutant: remove empties the map
StoreRemove_All(store, key) == <<>>

\* keychain.rs:185 HashMap::remove
StoreRemove(store, key) == [k \in DOMAIN store \ {key} |-> store[k]]

\* HashMap::get(key).cloned()
StoreGet(store, key) ==
    IF key \in DOMAIN store THEN Some(store[key]) ELSE None

\* keychain.rs:178-181 get_encrypted_file
GetEncryptedFile(file, env, key) ==
    LET loaded == LoadEncryptedStore(file, env)
    IN  [ok |-> loaded.ok,
         value |-> IF loaded.ok THEN StoreGet(loaded.store, key) ELSE None]

\* keychain.rs:161 serde_json::to_string of the key list
KeysJson(keys) == <<"[", keys, "]">>

\* keychain.rs:87, 147: serde_json::from_str::<Vec<String>>
ParseKeysList(json) ==
    IF Len(json) = 3 /\ json[1] = "[" /\ json[3] = "]"
    THEN [ok |-> TRUE, keys |-> json[2]]
    ELSE [ok |-> FALSE, keys |-> <<>>]

\* Entry::set_password
SetPassword(entries, key, value) ==
    [k \in DOMAIN entries \cup {key} |->
        IF k = key THEN value ELSE entries[k]]

\* Entry::delete_credential
DeleteCredential(entries, key) ==
    [k \in DOMAIN entries \ {key} |-> entries[k]]

\* keychain.rs:140-167 update_keys_list: the index is read (a list that does
\* not parse counts as empty), changed and stored; fault names the keyring
\* call that fails
UpdateKeysList(entries, key, add, fault) ==
    IF key = IndexKey THEN [ok |-> TRUE, entries |-> entries]
    ELSE IF fault = "get_index" THEN [ok |-> FALSE, entries |-> entries]
    ELSE
    LET parsed == IF IndexKey \in DOMAIN entries
                  THEN ParseKeysList(entries[IndexKey])
                  ELSE [ok |-> TRUE, keys |-> <<>>]
        keys == IF parsed.ok THEN parsed.keys ELSE <<>>
        changed == IF add
                   THEN IF Contains(keys, key) THEN keys
                        ELSE Append(keys, key)
                   ELSE SelectSeq(keys, LAMBDA k : k # key)
    IN  IF fault = "set_index" THEN [ok |-> FALSE, entries |-> entries]
        ELSE [ok |-> TRUE,
              entries |-> SetPassword(entries, IndexKey, KeysJson(changed))]

\* keychain.rs:101-112 set_system_keychain
SetSystemKeychain(entries, key, value, fault) ==
    IF fault = "set_password" THEN [ok |-> FALSE, entries |-> entries]
    ELSE UpdateKeysList(SetPassword(entries, key, value), key, TRUE, fault)

\* keychain.rs:114-123 get_system_keychain: NoEntry is Ok(None)
GetSystemKeychain(entries, key, fault) ==
    IF fault = "get_password" THEN [ok |-> FALSE, value |-> None]
    ELSE [ok |-> TRUE, value |-> StoreGet(entries, key)]

\* keychain.rs:125-138 delete_system_keychain: NoEntry is Ok(()) and leaves
\* the index alone
DeleteSystemKeychain(entries, key, fault) ==
    IF fault = "delete_credential" THEN [ok |-> FALSE, entries |-> entries]
    ELSE IF key \notin DOMAIN entries
         THEN [ok |-> TRUE, entries |-> entries]
         ELSE UpdateKeysList(DeleteCredential(entries, key), key, FALSE,
                             fault)

\* keychain.rs:82-92 list_keys on the system backend
ListSystemKeys(entries, fault) ==
    IF fault = "get_index" THEN [ok |-> FALSE, keys |-> <<>>]
    ELSE IF IndexKey \notin DOMAIN entries
         THEN [ok |-> TRUE, keys |-> <<>>]
         ELSE ParseKeysList(entries[IndexKey])

\* keychain.rs:337-340: delete_system_keychain(key)? for each listed key;
\* fault strikes in the delete of the at-th key
RECURSIVE DeleteEach(_, _, _, _)
DeleteEach(entries, keys, fault, at) ==
    IF keys = <<>> THEN [ok |-> TRUE, entries |-> entries]
    ELSE LET r == DeleteSystemKeychain(entries, Head(keys),
                                       IF at = 1 THEN fault ELSE "none")
         IN  IF r.ok THEN DeleteEach(r.entries, Tail(keys), fault, at - 1)
             ELSE r

\* keychain.rs:336-343 clear_all on the system backend: the listed keys,
\* then the index, whose deletion may fail unnoticed
ClearSystemKeychain(entries, fault, at) ==
    LET listed == ListSystemKeys(entries, IF at = 0 THEN fault ELSE "none")
    IN  IF ~listed.ok THEN [ok |-> FALSE, entries |-> entries]
        ELSE LET r == DeleteEach(entries, listed.keys, fault, at)
             IN  IF ~r.ok THEN r
                 ELSE IF fault = "delete_index" THEN r
                      ELSE [ok |-> TRUE,
                            entries |-> DeleteCredential(r.entries,
                                                         IndexKey)]

\* what the calls so far say about the keys: a call that returned an error
\* leaves its key in doubt
KeysAfter(known, op, key, ok) ==
    CASE op = "set" ->
             IF ok THEN [sure |-> known.sure \cup {key},
                         unsure |-> known.unsure \ {key}]
             ELSE IF key \in known.sure THEN known
             ELSE [known EXCEPT !.unsure = @ \cup {key}]
      [] op = "delete" ->
             IF ok THEN [sure |-> known.sure \ {key},
                         unsure |-> known.unsure \ {key}]
             ELSE IF key \in known.sure
             THEN [sure |-> known.sure \ {key},
                   unsure |-> known.unsure \cup {key}]
             ELSE known
      [] op = "clear_all" ->
             IF ok THEN [sure |-> {}, unsure |-> {}]
             ELSE [sure |-> {}, unsure |-> known.sure \cup known.unsure]
      [] OTHER -> known

\* a store file written by an earlier run under the password given
StoredFile(store, password) ==
    SaveEncryptedStore(store, Some(password), 1, 1,
                       CHOOSE order \in KeyOrders : TRUE)

\* the file an earlier run or something else left at encrypted_file_path:
\* none, a sound one, and ones that do not parse, do not decrypt (bytes
\* changed, another master password) or do not hold a map
VaultFiles(env) ==
    LET sound == StoredFile(SetPassword(<<>>, KeychainKey("a"), <<"p">>),
                            MasterPassword(env))
        content == Unwrap(sound)[2]
    IN  {None, sound,
         Some(<<"not json">>),
         Some(<<"{", [content EXCEPT !.data.intact = FALSE], "}">>),
         StoredFile(SetPassword(<<>>, KeychainKey("a"), <<"p">>), "other"),
         Some(SerializeEncryptedStore(
                  1, 1, Encrypt(KeysJson(<<>>), MasterPassword(env), 1, 1)))}

\* the entries an earlier run left in the system store: none, or one key
\* and the index naming it
VaultEntries ==
    {<<>>,
     SetSystemKeychain(<<>>, KeychainKey("a"), <<"p">>, "none").entries}

\* KeychainManager::new (keychain.rs:39-52) on what earlier runs left
InitVault ==
    /\ cmd = "vault"
    /\ pc = "run"
    /\ master_password \in {None, Some("m")}
    /\ \E use_system_keychain \in BOOLEAN :
           /\ config = [security |->
                           [use_system_keychain |-> use_system_keychain]]
           /\ IF use_system_keychain
              THEN /\ vault_file = None
                   /\ keychain \in VaultEntries
                   /\ vault_keys = [sure |-> DOMAIN keychain \ {IndexKey},
                                    unsure |-> {}]
              ELSE /\ vault_file \in VaultFiles(master_password)
                   /\ keychain = <<>>
                   /\ LET loaded == LoadEncryptedStore(vault_file,
                                                       master_password)
                      IN  vault_keys = [sure |-> IF loaded.ok
                                                 THEN DOMAIN loaded.store
                                                 ELSE {},
                                        unsure |-> {}]
    /\ destination = None
    /\ image_data = None
    /\ final_filename = GivenFilename
    /\ uploader_names = <<>>
    /\ uploaders = <<>>
    /\ i = 1
    /\ primary_result = None
    /\ outcome = Running
    /\ history = <<>>
    /\ history_handle = None
    /\ next_id = 1
    /\ clock = 1
    /\ clipboard_text = None
    /\ remote = {}
    /\ last_hash = None
    /\ upload_count = 0
    /\ polls = 0
    /\ COUNTER = 1
    /\ log = <<>>
    /\ attempts = <<>>
    /\ added = <<>>
    /\ history_step = "none"
    /\ files = <<>>
    /\ call = NoCall
    /\ frame = None
    /\ seen = [read |-> None, image |-> None, dispatched |-> FALSE]
    /\ in_flight = None
    /\ remote_dir = "dir"
    /\ channel = <<>>
    /\ procs = <<>>
    /\ screen = "Home"
    /\ available_uploaders = <<>>
    /\ history_selected = 1
    /\ show_reupload_menu = FALSE
    /\ reupload_selected = 1
    /\ show_password_prompt = FALSE
    /\ password_buffer = <<>>
    /\ pending_reupload = None
    /\ status_message = None

\* what the vault never writes
vault_frame == <<cmd, pc, config, destination, image_data, final_filename,
                 uploader_names, uploaders, i, primary_result, outcome,
                 history, history_handle, next_id, clock, clipboard_text,
                 remote, last_hash, upload_count, polls, COUNTER, log,
                 attempts, added, history_step, files, frame, screen,
                 available_uploaders, history_selected, show_reupload_menu,
                 reupload_selected, show_password_prompt, password_buffer,
                 pending_reupload, status_message, master_password, seen,
                 in_flight, race_vars>>

VaultRunning == cmd = "vault" /\ call.n < MaxCalls

UseSystemKeychain == config.security.use_system_keychain

\* what a vault call returned; the arguments are kept with the value
VaultCall(op, ok, key, value) ==
    Call(op, IF ok THEN "none" ELSE "error", [key |-> key, value |-> value])

\* keychain.rs:55-61 KeychainManager::set(key, value)
VaultSet ==
    /\ VaultRunning
    /\ \E key \in VaultKeys, value \in VaultValues :
           IF UseSystemKeychain
           THEN \E fault \in {"none", "set_password", "get_index",
                              "set_index"} :
                    LET r == SetSystemKeychain(keychain, key, value, fault)
                    IN  /\ keychain' = r.entries
                        /\ vault_file' = vault_file
                        /\ call' = VaultCall("set", r.ok, key, value)
                        /\ vault_keys' = KeysAfter(vault_keys, "set", key,
                                                   r.ok)
           ELSE \E salt \in Salts, nonce \in Nonces, order \in KeyOrders,
                   fault \in {"none", "write"} :
                    LET loaded == LoadEncryptedStore(vault_file,
                                                     master_password)
                        ok == loaded.ok /\ fault = "none"
                    IN  /\ vault_file' =
                               IF ok
                               THEN SaveEncryptedStore(
                                        StoreInsert(loaded.store, key,
                                                    value),
                                        master_password, salt, nonce, order)
                               ELSE vault_file
                        /\ keychain' = keychain
                        /\ call' = VaultCall("set", ok, key, value)
                        /\ vault_keys' = KeysAfter(vault_keys, "set", key,
                                                   ok)
    /\ UNCHANGED vault_frame

\* keychain.rs:64-70 KeychainManager::get(key)
VaultGet ==
    /\ VaultRunning
    /\ \E key \in VaultKeys :
           LET r == IF UseSystemKeychain
                    THEN GetSystemKeychain(keychain, key, "none")
                    ELSE GetEncryptedFile(vault_file, master_password, key)
           IN  call' = VaultCall("get", r.ok, key, r.value)
    /\ UNCHANGED <<vault_frame, keychain, vault_file, vault_keys>>

\* keychain.rs:73-79 KeychainManager::delete(key)
VaultDelete ==
    /\ VaultRunning
    /\ \E key \in VaultKeys :
           IF UseSystemKeychain
           THEN \E fault \in {"none", "delete_credential", "get_index",
                              "set_index"} :
                    LET r == DeleteSystemKeychain(keychain, key, fault)
                    IN  /\ keychain' = r.entries
                        /\ vault_file' = vault_file
                        /\ call' = VaultCall("delete", r.ok, key, None)
                        /\ vault_keys' = KeysAfter(vault_keys, "delete",
                                                   key, r.ok)
           ELSE \E salt \in Salts, nonce \in Nonces, order \in KeyOrders,
                   fault \in {"none", "write"} :
                    LET loaded == LoadEncryptedStore(vault_file,
                                                     master_password)
                        ok == loaded.ok /\ fault = "none"
                    IN  /\ vault_file' =
                               IF ok
                               THEN SaveEncryptedStore(
                                        StoreRemove(loaded.store, key),
                                        master_password, salt, nonce, order)
                               ELSE vault_file
                        /\ keychain' = keychain
                        /\ call' = VaultCall("delete", ok, key, None)
                        /\ vault_keys' = KeysAfter(vault_keys, "delete",
                                                   key, ok)
    /\ UNCHANGED vault_frame

\* keychain.rs:82-97 KeychainManager::list_keys()
VaultListKeys ==
    /\ VaultRunning
    /\ IF UseSystemKeychain
       THEN \E fault \in {"none", "get_index"} :
                LET r == ListSystemKeys(keychain, fault)
                IN  call' = VaultCall("list_keys", r.ok, None, r.keys)
       ELSE \E order \in KeyOrders :
                LET loaded == LoadEncryptedStore(vault_file, master_password)
                IN  call' = VaultCall("list_keys", loaded.ok, None,
                                      IF loaded.ok
                                      THEN StoreKeys(loaded.store, order)
                                      ELSE <<>>)
    /\ UNCHANGED <<vault_frame, keychain, vault_file, vault_keys>>

\* keychain.rs:335-354 KeychainManager::clear_all()
VaultClearAll ==
    /\ VaultRunning
    /\ IF UseSystemKeychain
       THEN \E fault \in {"none", "delete_credential", "get_index",
                          "set_index", "delete_index"},
               at \in 0..Cardinality(VaultKeys) :
                LET r == ClearSystemKeychain(keychain, fault, at)
                IN  /\ keychain' = r.entries
                    /\ vault_file' = vault_file
                    /\ call' = VaultCall("clear_all", r.ok, None, None)
                    /\ vault_keys' = KeysAfter(vault_keys, "clear_all",
                                               None, r.ok)
       ELSE \E fault \in {"none", "remove_file"} :
                LET ok == vault_file = None \/ fault = "none"
                IN  /\ vault_file' = IF ok THEN None ELSE vault_file
                    /\ keychain' = keychain
                    /\ call' = VaultCall("clear_all", ok, None, None)
                    /\ vault_keys' = KeysAfter(vault_keys, "clear_all",
                                               None, ok)
    /\ UNCHANGED vault_frame

NextVault ==
    \/ VaultSet
    \/ VaultGet
    \/ VaultDelete
    \/ VaultListKeys
    \/ VaultClearAll

SpecVault == InitVault /\ [][NextVault]_vars

-----------------------------------------------------------------------------
(* Properties of the vault *)

\* the vault of this run is the encrypted file
FileBackend == cmd = "vault" /\ ~UseSystemKeychain

\* this step is a call of op that returns Ok
VaultReturnsOk(op) == call'.n = call.n + 1 /\ call'.op = op /\ call'.ok

\* what get(key) returns on the file as it is after this step
GetAfter(key) == GetEncryptedFile(vault_file', master_password', key)

\* C23: on the encrypted-file vault, once set(k, v) has returned Ok a get(k)
\* returns v, the value of that last set, and once delete(k) has returned Ok
\* a get(k) returns None.
C23_RoundTrip ==
    [][FileBackend =>
          /\ VaultReturnsOk("set") =>
                 GetAfter(call'.value.key) =
                     [ok |-> TRUE, value |-> Some(call'.value.value)]
          /\ VaultReturnsOk("delete") =>
                 GetAfter(call'.value.key) = [ok |-> TRUE, value |-> None]
      ]_vars

\* C23 witness: on the file vault a get that follows a set returned the
\* second value the run stored.
C23_Witness ==
    /\ FileBackend
    /\ call.op = "get" /\ call.prev = "set" /\ call.ok /\ call.n = 3
    /\ call.value.value = Some(<<"q">>)

\* the file is there and does not parse, decrypt or hold a map
CorruptFile ==
    /\ IsSome(vault_file)
    /\ LET es == ParseEncryptedStore(Unwrap(vault_file))
       IN  \/ ~es.ok
           \/ LET d == Decrypt(es.value.data,
                               MasterPassword(master_password),
                               es.value.salt, es.value.nonce)
              IN  ~d.ok \/ ~ParseStore(d.text).ok

\* C24: while the vault file is present and does not parse or decrypt under
\* the master password, get, set, delete and list_keys return an error, and
\* none of them changes the file.
C24_CorruptFileIsAnError ==
    [][(FileBackend /\ CorruptFile /\ call'.n = call.n + 1
        /\ call'.op \in {"get", "set", "delete", "list_keys"}) =>
           ~call'.ok /\ vault_file' = vault_file]_vars

\* C24 witness: a set on a file that does not decrypt returned an error and
\* the file is still there.
C24_Witness ==
    FileBackend /\ CorruptFile /\ call.op = "set" /\ ~call.ok

\* C26: a set(k, v) or delete(k) on the encrypted-file vault that returns Ok
\* leaves what get returns for every other key as it was.
C26_OtherKeysKept ==
    [][(FileBackend /\ (VaultReturnsOk("set") \/ VaultReturnsOk("delete")))
          => \A other \in VaultKeys \ {call'.value.key} :
                 GetAfter(other) =
                     GetEncryptedFile(vault_file, master_password, other)
      ]_vars

\* C26 witness: a delete returned Ok and the file still holds another key.
C26_Witness ==
    /\ FileBackend /\ call.op = "delete" /\ call.ok
    /\ \E other \in VaultKeys \ {call.value.key} :
           IsSome(GetEncryptedFile(vault_file, master_password, other).value)

\* C25: list_keys() that returns Ok lists every key that was set and not
\* deleted or cleared since, no other key, no key twice and never the index
\* key; a key whose last call returned an error may or may not be listed.
C25_ListIsTheLiveKeys ==
    (cmd = "vault" /\ call.op = "list_keys" /\ call.ok) =>
        LET listed == call.value.value
        IN  /\ vault_keys.sure \subseteq Range(listed)
            /\ Range(listed) \subseteq vault_keys.sure \cup vault_keys.unsure
            /\ Len(listed) = Cardinality(Range(listed))
            /\ IndexKey \notin Range(listed)

-----------------------------------------------------------------------------
(* Authentication of the remote uploaders: SftpUploader::authenticate      *)
(* (upload/sftp.rs:84-151) and the second half of SshUploader::connect     *)
(* (upload/ssh.rs:91-150), call by call on the ssh2 session.               *)

\* the ssh2 calls: userauth_pubkey_file, userauth_password, userauth_agent
AuthMethods == {"publickey", "password", "agent"}

\* how the server answers a call: Ok and the session is authenticated, Err,
\* or Ok while the session is not authenticated yet (it wants more)
AuthAnswers == {"ok", "err", "partial"}

\* the uploaders authentication is run on: both variants, with and without
\* use_key_auth, key_path, username and password
AuthUploaders ==
    {[config |-> [RemoteConfig(type, "b", TRUE) EXCEPT
                     !.use_key_auth = key_auth, !.key_path = key_path,
                     !.username = username],
      password |-> password] :
        type \in {"sftp", "ssh"}, key_auth \in {None, Some(TRUE), Some(FALSE)},
        key_path \in {None, Some("~/.ssh/id")},
        username \in {Some("user")},
        password \in {None, Some(<<"p">>), Some(<<"q">>)}}
    \cup {[config |-> [RemoteConfig(type, "b", TRUE) EXCEPT
                          !.username = None],
           password |-> None] : type \in {"sftp", "ssh"}}

\* what authentication returned, and the calls it made on the session
AuthReturn(ok, kind, calls) == [ok |-> ok, kind |-> kind, calls |-> calls]

\* one call on the session and the server's answer to it
AuthCall(method, server) == [call |-> method, answer |-> server[method]]

\* sftp.rs:132-151, ssh.rs:152-171 authenticate_password, after the calls
\* made so far
AuthenticatePassword(password, server, calls) ==
    IF password = None
    THEN AuthReturn(FALSE, "SshAuthentication", calls)
    ELSE LET made == Append(calls, AuthCall("password", server))
         IN  IF server["password"] = "ok"
             THEN AuthReturn(TRUE, "", made)
             ELSE AuthReturn(FALSE, "SshAuthentication", made)

\* sftp.rs:84-129 SftpUploader::authenticate
SftpAuthenticate(c, password, server) ==
    IF c.username = None THEN AuthReturn(FALSE, "Config", <<>>)
    ELSE IF c.use_key_auth = Some(TRUE)
    THEN IF c.key_path = None THEN AuthReturn(FALSE, "Config", <<>>)
         ELSE LET made == <<AuthCall("publickey", server)>>
              IN  IF server["publickey"] = "err"
                  THEN IF IsSome(password)
                       THEN AuthenticatePassword(password, server, made)
                       ELSE AuthReturn(FALSE, "SshAuthentication", made)
                  ELSE IF server["publickey"] = "ok"
                       THEN AuthReturn(TRUE, "", made)
                       ELSE AuthReturn(FALSE, "SshAuthentication", made)
    ELSE AuthenticatePassword(password, server, <<>>)

\* ssh.rs:57-62, 91-150 SshUploader::connect, from the username on
SshAuthenticate(c, password, server) ==
    IF c.username = None THEN AuthReturn(FALSE, "Config", <<>>)
    ELSE IF c.use_key_auth = Some(TRUE)
    THEN IF c.key_path = None THEN AuthReturn(FALSE, "Config", <<>>)
         ELSE LET made == <<AuthCall("publickey", server)>>
              IN  IF server["publickey"] = "err"
                  THEN IF IsSome(password)
                       THEN AuthenticatePassword(password, server, made)
                       ELSE AuthReturn(FALSE, "SshAuthentication", made)
                  ELSE IF server["publickey"] = "ok"
                       THEN AuthReturn(TRUE, "", made)
                       ELSE AuthReturn(FALSE, "SshAuthentication", made)
    ELSE IF IsSome(password)
    THEN LET made == <<AuthCall("password", server)>>
         IN  IF server["password"] = "ok" THEN AuthReturn(TRUE, "", made)
             ELSE AuthReturn(FALSE, "SshAuthentication", made)
    ELSE LET made == <<AuthCall("agent", server)>>
         IN  IF server["agent"] = "ok" THEN AuthReturn(TRUE, "", made)
             ELSE AuthReturn(FALSE, "SshAuthentication", made)

\* the authentication of the variant
Authenticate(c, password, server) ==
    IF c.uploader_type = "sftp" THEN SftpAuthenticate(c, password, server)
    ELSE SshAuthenticate(c, password, server)

\* an uploader built by new()/with_password(), connected and not yet
\* authenticated
InitAuth ==
    /\ cmd = "auth"
    /\ pc = "authenticate"
    /\ \E u \in AuthUploaders : uploaders = <<<<"b", u>>>>
    /\ config = [uploads |-> <<>>]
    /\ destination = None
    /\ image_data = None
    /\ final_filename = GivenFilename
    /\ uploader_names = <<"b">>
    /\ i = 1
    /\ primary_result = None
    /\ outcome = Running
    /\ history = <<>>
    /\ history_handle = None
    /\ next_id = 1
    /\ clock = 1
    /\ clipboard_text = None
    /\ remote = {}
    /\ last_hash = None
    /\ upload_count = 0
    /\ polls = 0
    /\ COUNTER = 1
    /\ log = <<>>
    /\ attempts = <<>>
    /\ added = <<>>
    /\ history_step = "none"
    /\ files = <<>>
    /\ call = NoCall
    /\ ExtIdle
    /\ TuiIdle

\* sftp.rs:84-129, ssh.rs:91-150: the authentication of the session against
\* a server that answers each call in one of the three ways
AuthRun ==
    /\ cmd = "auth" /\ pc = "authenticate"
    /\ \E server \in [AuthMethods -> AuthAnswers] :
           LET u == uploaders[1][2]
               r == Authenticate(u.config, u.password, server)
           IN  /\ log' = r.calls
               /\ outcome' = IF r.ok THEN Ok ELSE Err(r.kind, "b")
    /\ pc' = "done"
    /\ UNCHANGED <<cmd, config, destination, image_data, final_filename,
                   uploader_names, uploaders, i, primary_result, history,
                   history_handle, next_id, clock, clipboard_text, remote,
                   last_hash, upload_count, polls, COUNTER, attempts, added,
                   history_step, store_vars, tui_vars, ext_vars>>

NextAuth == AuthRun

SpecAuth == InitAuth /\ [][NextAuth]_vars

\* the uploader under authentication
AuthUploader == uploaders[1][2]

\* the methods the precedence applies to this uploader: the key when
\* key-auth is configured, the password when there is one, the agent when
\* there is none
Applicable ==
    (IF AuthUploader.config.use_key_auth = Some(TRUE) THEN {"publickey"}
     ELSE {})
        \cup (IF IsSome(AuthUploader.password) THEN {"password"}
              ELSE {"agent"})

\* the position of a method in the precedence
Precedence(m) ==
    CASE m = "publickey" -> 1 [] m = "password" -> 2 [] OTHER -> 3

\* C27: authentication calls the methods in the order key, password, agent,
\* calls nothing after a call that authenticated the session, and returns
\* AuthenticationError only when every applicable method was called and
\* failed.
C27_AuthPrecedence ==
    (cmd = "auth" /\ pc = "done") =>
        /\ \A j, k \in 1..Len(log) :
               j < k => Precedence(log[j].call) < Precedence(log[k].call)
        /\ \A k \in 1..Len(log) : log[k].answer = "ok" => k = Len(log)
        /\ (outcome.status = "ok") =>
               (log # <<>> /\ log[Len(log)].answer = "ok")
        /\ (outcome.status = "err" /\ outcome.kind = "SshAuthentication")
               => \A m \in Applicable :
                      \E k \in 1..Len(log) :
                          log[k].call = m /\ log[k].answer # "ok"

-----------------------------------------------------------------------------
(* The watch loop on its own (watch.rs:104-233): several polls, from the   *)
(* state the set-up of the command leaves.                                 *)

\* the uploaders that passed set-up: one local destination, or a local and
\* a remote one
PollsUploads ==
    {[a |-> LocalConfig("a", TRUE)],
     [a |-> LocalConfig("a", TRUE), b |-> SshConfig("b", TRUE)]}

\* watch.rs:104: the loop is entered with no hash seen and no upload made
InitPolls ==
    /\ cmd = "polls"
    /\ pc = "poll"
    /\ \E uploads \in PollsUploads :
           /\ config = [default_uploader |-> "a",
                        additional_uploaders |->
                            IF "b" \in DOMAIN uploads THEN <<"b">> ELSE <<>>,
                        copy_url_to_clipboard |-> TRUE,
                        clipboard_copy_mode |-> "Auto",
                        history |-> [enabled |-> FALSE,
                                     max_entries |-> MaxEntries],
                        uploads |-> uploads]
           /\ uploader_names = BuildUploaderNames(None, config)
           /\ uploaders = [k \in 1..Len(uploader_names) |->
                              [name |-> uploader_names[k],
                               config |-> uploads[uploader_names[k]]]]
    /\ destination = None
    /\ image_data = <<>>
    /\ final_filename = GivenFilename
    /\ i = Len(uploader_names) + 1
    /\ primary_result = None
    /\ outcome = Running
    /\ history = <<>>
    /\ history_handle = None
    /\ next_id = 1
    /\ clock = 1
    /\ clipboard_text = None
    /\ remote = {}
    /\ last_hash = None
    /\ upload_count = 0
    /\ polls = 0
    /\ COUNTER = 1
    /\ log = <<>>
    /\ attempts = <<>>
    /\ added = <<>>
    /\ history_step = "none"
    /\ files = <<>>
    /\ call = NoCall
    /\ ExtIdle
    /\ TuiIdle

NextPolls ==
    \/ WatchPollIdle
    \/ WatchPollNew
    \/ WatchUploadOk
    \/ WatchUploadFail
    \/ WatchAllFailed
    \/ WatchProcess

SpecPolls == InitPolls /\ [][NextPolls]_vars

\* the read is an image
ImageBearing(read) == IsSome(read) /\ read # Some(<<>>)

\* C28: a poll of the watch loop starts a dispatch only when it reads an
\* image whose hash differs from the hash of the image the previous
\* image-bearing poll read (or no poll read an image before); a poll that
\* reads an image of the same hash starts none, whatever the outcome of the
\* dispatch before.
C28_UnchangedImageNotRedispatched ==
    [][(cmd = "polls" /\ polls' = polls + 1) =>
          LET read == seen'.read
              before == seen.image
              same == /\ ImageBearing(read) /\ IsSome(before)
                      /\ calculate_hash(Unwrap(read)) =
                             calculate_hash(Unwrap(before))
          IN  /\ pc' = "dispatch" => (ImageBearing(read) /\ ~same)
              /\ same => (pc' = "poll" /\ attempts' = attempts
                          /\ COUNTER' = COUNTER)]_vars

\* C28 witness: two polls were made, the first started the only dispatch,
\* which failed on every destination, and the second read the same image
\* and started none.
C28_Witness ==
    /\ cmd = "polls" /\ pc = "poll" /\ polls = 2 /\ COUNTER = 2
    /\ outcome = Err("AllUploadsFailed", "")
    /\ ImageBearing(seen.read) /\ seen.read = Some(image_data)
    /\ ~seen.dispatched

-----------------------------------------------------------------------------
(* The two loops around an upload in flight: the watch loop                *)
(* (snapto-cli/src/commands/watch.rs:104-233) and the event loop of the UI *)
(* (snapto-tui/src/main.rs:58-74, app.rs:1266-1350). upload() hands the    *)
(* transfer to a blocking thread (sftp.rs:178, ssh.rs:225); its start and  *)
(* its completion are separate steps here.                                 *)

\* the destinations the loops upload to
FlightUploaders ==
    {<<[name |-> "a", config |-> LocalConfig("a", TRUE)]>>,
     <<[name |-> "b", config |-> RemoteConfig("sftp", "b", TRUE)]>>,
     <<[name |-> "a", config |-> LocalConfig("a", TRUE)],
       [name |-> "b", config |-> RemoteConfig("ssh", "b", TRUE)]>>}

\* the watch loop after its set-up, or the UI on its History screen with a
\* row selected
InitFlight ==
    /\ cmd \in {"watch_loop", "event_loop"}
    /\ pc = "idle"
    /\ uploaders \in FlightUploaders
    /\ (cmd = "event_loop") => Len(uploaders) = 1
    /\ config = [uploads |-> <<>>]
    /\ uploader_names = [k \in 1..Len(uploaders) |-> uploaders[k].name]
    /\ destination = None
    /\ image_data = <<>>
    /\ final_filename = GivenFilename
    /\ i = 1
    /\ primary_result = None
    /\ outcome = Running
    /\ history = <<>>
    /\ history_handle = None
    /\ next_id = 1
    /\ clock = 1
    /\ clipboard_text = None
    /\ remote = {}
    /\ last_hash = None
    /\ upload_count = 0
    /\ polls = 0
    /\ COUNTER = 1
    /\ log = <<>>
    /\ attempts = <<>>
    /\ added = <<>>
    /\ history_step = "none"
    /\ files = <<>>
    /\ call = NoCall
    /\ ExtIdle
    /\ TuiIdle

\* what the loops of this section never write
flight_frame == <<cmd, config, destination, final_filename, uploader_names,
                  uploaders, primary_result, outcome, history,
                  history_handle, next_id, clock, clipboard_text, remote,
                  COUNTER, added, history_step, store_vars, frame,
                  vault_vars, seen, available_uploaders, history_selected,
                  show_reupload_menu, reupload_selected,
                  show_password_prompt, password_buffer, pending_reupload,
                  status_message, keychain, race_vars>>

\* watch.rs:104-125, 224-233: one pass of the watch loop up to the uploads:
\* the clipboard is read, and a new image starts a dispatch
FlightPoll ==
    /\ cmd = "watch_loop" /\ pc = "idle" /\ polls < MaxWatchPolls
    /\ polls' = polls + 1
    /\ \E read \in {None} \cup {Some(img) : img \in Images} :
           IF IsSome(read) /\ read # Some(<<>>)
              /\ ImageChanged(last_hash, calculate_hash(Unwrap(read)))
           THEN /\ last_hash' = Some(calculate_hash(Unwrap(read)))
                /\ image_data' = Unwrap(read)
                /\ attempts' = <<>>
                /\ i' = 1
                /\ pc' = "uploads"
           ELSE UNCHANGED <<last_hash, image_data, attempts, i, pc>>
    /\ UNCHANGED <<flight_frame, screen, in_flight, upload_count, log>>

\* main.rs:63-73, app.rs:315-: one pass of the event loop: a key is read and
\* handled; Enter on the re-send menu goes on to the upload, Tab changes the
\* screen
FlightKeyEvent ==
    /\ cmd = "event_loop" /\ pc = "idle" /\ polls < MaxWatchPolls
    /\ polls' = polls + 1
    /\ \E key \in {"Tab", "Enter"} :
           IF key = "Enter"
           THEN /\ attempts' = <<>>
                /\ i' = 1
                /\ pc' = "uploads"
                /\ screen' = screen
           ELSE /\ screen' = ScreenNext(screen)
                /\ UNCHANGED <<attempts, i, pc>>
    /\ UNCHANGED <<flight_frame, in_flight, upload_count, log, last_hash,
                   image_data>>

\* watch.rs:140, app.rs:1313-1315: upload() is called and awaited (in the UI
\* through Runtime::block_on): the caller goes no further until it returns
FlightUploadStart ==
    /\ cmd \in {"watch_loop", "event_loop"}
    /\ pc = "uploads" /\ i <= Len(uploaders)
    /\ in_flight' = Some(uploaders[i].name)
    /\ log' = Append(log, Event("upload", uploaders[i].name))
    /\ pc' = "await"
    /\ UNCHANGED <<flight_frame, screen, upload_count, attempts, i, polls,
                   last_hash, image_data>>

\* sftp.rs:178-230, watch.rs:141-159, app.rs:1317-: the transfer ends, the
\* future resolves and the caller goes on with the result
FlightUploadDone ==
    /\ cmd \in {"watch_loop", "event_loop"}
    /\ pc = "await" /\ IsSome(in_flight)
    /\ \E ok \in BOOLEAN :
           attempts' = Append(attempts,
                              Attempt(Unwrap(in_flight), i, ok,
                                      IF ok THEN "" ELSE "SshConnection"))
    /\ in_flight' = None
    /\ i' = i + 1
    /\ pc' = "uploads"
    /\ UNCHANGED <<flight_frame, screen, upload_count, log, polls,
                   last_hash, image_data>>

\* watch.rs:164-222, app.rs:1317-1350: the results are handled and the loop
\* returns to its next pass
FlightDispatchEnd ==
    /\ cmd \in {"watch_loop", "event_loop"}
    /\ pc = "uploads" /\ i > Len(uploaders)
    /\ upload_count' =
           IF \E k \in 1..Len(attempts) : attempts[k].ok
           THEN upload_count + 1 ELSE upload_count
    /\ pc' = "idle"
    /\ UNCHANGED <<flight_frame, screen, in_flight, attempts, i, polls, log,
                   last_hash, image_data>>

NextFlight ==
    \/ FlightPoll
    \/ FlightKeyEvent
    \/ FlightUploadStart
    \/ FlightUploadDone
    \/ FlightDispatchEnd

SpecFlight == InitFlight /\ [][NextFlight]_vars

\* C29: while an upload is in flight and the loop has passes left, the next
\* pass of the loop can be taken: the watch loop can poll the clipboard, the
\* UI can handle a key event.
C29_LoopsRunDuringUpload ==
    (cmd \in {"watch_loop", "event_loop"} /\ IsSome(in_flight)
     /\ polls < MaxWatchPolls)
        => ENABLED (FlightPoll \/ FlightKeyEvent)

-----------------------------------------------------------------------------
(* Sections with several parties keep the state of the single-command      *)
(* sections at rest.                                                       *)

\* the variables of the commands, the store and the UI that the sections
\* below neither read nor write
rest_vars == <<config, destination, image_data, final_filename,
               uploader_names, uploaders, i, primary_result, history,
               history_handle, next_id, clock, clipboard_text, remote,
               last_hash, upload_count, polls, log, attempts, added,
               history_step, store_vars, tui_vars, vault_keys, seen,
               in_flight>>

RestIdle ==
    /\ config = [uploads |-> <<>>]
    /\ destination = None
    /\ image_data = <<>>
    /\ final_filename = GivenFilename
    /\ uploader_names = <<>>
    /\ uploaders = <<>>
    /\ i = 1
    /\ primary_result = None
    /\ history = <<>>
    /\ history_handle = None
    /\ next_id = 1
    /\ clock = 1
    /\ clipboard_text = None
    /\ remote = {}
    /\ last_hash = None
    /\ upload_count = 0
    /\ polls = 0
    /\ log = <<>>
    /\ attempts = <<>>
    /\ added = <<>>
    /\ history_step = "none"
    /\ files = <<>>
    /\ call = NoCall
    /\ TuiIdle
    /\ vault_keys = [sure |-> {}, unsure |-> {}]
    /\ seen = [read |-> <<>>, image |-> <<>>, dispatched |-> FALSE]
    /\ in_flight = <<>>

-----------------------------------------------------------------------------
(* The remote target directory: SshUploader::ensure_remote_dir             *)
(* (upload/ssh.rs:182-209) and the mkdir of SftpUploader::upload           *)
(* (upload/sftp.rs:201-212), step by step on the SFTP channel, next to     *)
(* another client of the same server.                                      *)

\* what a path of the server can hold
DirStates == {"absent", "dir", "file"}

\* the blocking task of upload() has its SFTP channel; nothing is known of
\* the server yet. frame holds its locals: the variant, the stat result, the
\* data, the file written and the uploads made so far
InitDir ==
    /\ cmd = "remote_dir"
    /\ pc = "connected"
    /\ remote_dir \in DirStates
    /\ frame = [uploader_type |-> "none", stat |-> "none", data |-> <<>>,
                written |-> None, n |-> 0, raced |-> FALSE]
    /\ outcome = Running
    /\ COUNTER = 1
    /\ vault_file = <<>>
    /\ master_password = <<>>
    /\ channel = <<>>
    /\ procs = <<>>
    /\ RestIdle

dir_frame == <<cmd, COUNTER, vault_file, master_password, channel, procs,
               rest_vars>>

\* sftp.rs:168, ssh.rs:214: upload(data, filename) is called on an uploader
\* of one of the two variants
DirUpload ==
    /\ cmd = "remote_dir" /\ pc \in {"connected", "returned"}
    /\ frame.n < MaxCalls
    /\ \E type \in {"sftp", "ssh"}, data \in Images :
           /\ frame' = [uploader_type |-> type, stat |-> "none",
                        data |-> data, written |-> None,
                        n |-> frame.n + 1, raced |-> FALSE]
           /\ pc' = IF type = "ssh" THEN "stat" ELSE "mkdir"
    /\ outcome' = Running
    /\ UNCHANGED <<dir_frame, remote_dir>>

\* ssh.rs:186-197: stat of the directory: a directory ends the function with
\* Ok, another kind of entry with an error, a failing stat goes on to mkdir
DirStat ==
    /\ cmd = "remote_dir" /\ pc = "stat"
    /\ frame' = [frame EXCEPT !.stat = remote_dir]
    /\ IF remote_dir = "dir"
       THEN pc' = "create" /\ outcome' = outcome
       ELSE IF remote_dir = "file"
       THEN pc' = "returned" /\ outcome' = Err("Sftp", "not a directory")
       ELSE pc' = "mkdir" /\ outcome' = outcome
    /\ UNCHANGED <<dir_frame, remote_dir>>

\* the answer of the server to mkdir(path, 0o755): it creates the directory
\* where nothing is, and refuses where something is already
Mkdir(dir) ==
    IF dir = "absent" THEN [ok |-> TRUE, dir |-> "dir"]
    ELSE [ok |-> FALSE, dir |-> dir]

\* ssh.rs:198-207: `sftp.mkdir(..).map_err(..)?`: every error of mkdir is
\* returned. sftp.rs:207: `let _ = sftp.mkdir(..)`: the result is dropped
DirMkdir ==
    /\ cmd = "remote_dir" /\ pc = "mkdir"
    /\ LET r == Mkdir(remote_dir) IN
           /\ remote_dir' = r.dir
           /\ IF frame.uploader_type = "ssh" /\ ~r.ok
              THEN /\ pc' = "returned"
                   /\ outcome' = Err("Sftp", "Failed to create directory")
              ELSE pc' = "create" /\ outcome' = outcome
    /\ UNCHANGED <<dir_frame, frame>>

\* sftp.rs:210-220, ssh.rs:253-270: create the file in the directory and
\* write it
DirCreate ==
    /\ cmd = "remote_dir" /\ pc = "create"
    /\ IF remote_dir = "dir"
       THEN /\ frame' = [frame EXCEPT !.written = Some(frame.data)]
            /\ outcome' = Ok
       ELSE /\ frame' = frame
            /\ outcome' = Err("Sftp", "Failed to create file")
    /\ pc' = "returned"
    /\ UNCHANGED <<dir_frame, remote_dir>>

\* another client of the server creates the directory, or removes it
DirOther ==
    /\ cmd = "remote_dir" /\ pc # "connected"
    /\ \/ /\ remote_dir = "absent"
          /\ remote_dir' = "dir"
          /\ frame' = [frame EXCEPT
                 !.raced = (pc = "mkdir" /\ frame.uploader_type = "ssh"
                            /\ frame.stat = "absent")
                           \/ (pc = "mkdir" /\ frame.uploader_type = "sftp")]
       \/ /\ remote_dir = "dir" /\ pc = "returned"
          /\ remote_dir' = "absent"
          /\ frame' = frame
    /\ UNCHANGED <<dir_frame, pc, outcome>>

NextDir ==
    \/ DirUpload
    \/ DirStat
    \/ DirMkdir
    \/ DirCreate
    \/ DirOther

SpecDir == InitDir /\ [][NextDir]_vars

\* C31: when the directory was absent at the stat step (the sftp variant has
\* no stat step) and another party created it before the uploader's mkdir,
\* the mkdir step does not end the upload with an error: the uploader goes on
\* to create the file.
C31_MkdirRaceIsSuccess ==
    [][(pc = "mkdir" /\ frame.raced /\ remote_dir = "dir" /\ pc' # "mkdir")
           => (pc' = "create" /\ outcome' = Running)]_vars

-----------------------------------------------------------------------------
(* ClipboardManager::watch (clipboard.rs:80-140): the background thread    *)
(* that polls the clipboard, the bounded tokio channel it sends into, and  *)
(* the consumer holding the receiver.                                      *)

\* clipboard.rs:81: mpsc::channel(10)
ChannelCapacity == 10

\* the PNG encodings the clipboard can hold
ChannelImages == {<<1>>, <<1, 1>>}

\* tokio mpsc Sender::blocking_send on a channel [queue, closed]: an error
\* once the receiver is gone, the message queued when there is room, and
\* otherwise the caller stays blocked
BlockingSend_Unbounded(ch, msg) ==
    IF ch.closed THEN [status |-> "closed", queue |-> ch.queue]
    ELSE [status |-> "sent", queue |-> Append(ch.queue, msg)]

BlockingSend(ch, msg) ==
    IF ch.closed THEN [status |-> "closed", queue |-> ch.queue]
    ELSE IF Len(ch.queue) < ChannelCapacity
    THEN [status |-> "sent", queue |-> Append(ch.queue, msg)]
    ELSE [status |-> "blocked", queue |-> ch.queue]

\* watch() has returned the receiver and the thread has been spawned. frame
\* holds the locals of the thread: last_image, the png_bytes being sent, and
\* whether the receiver was dropped while the thread was blocked sending
InitChannel ==
    /\ cmd = "clipboard_watch"
    /\ pc = "spawned"
    /\ channel = [queue |-> <<>>, closed |-> FALSE, delivered |-> 0]
    /\ frame = [last_image |-> None, png_bytes |-> None,
                blocked_at_close |-> FALSE]
    /\ outcome = Running
    /\ COUNTER = 1
    /\ vault_file = <<>>
    /\ master_password = <<>>
    /\ remote_dir = "dir"
    /\ procs = <<>>
    /\ RestIdle

channel_frame == <<cmd, outcome, COUNTER, vault_file, master_password,
                   remote_dir, procs, rest_vars>>

\* clipboard.rs:87-93: Clipboard::new() in the thread; an error ends it
ThreadStart ==
    /\ cmd = "clipboard_watch" /\ pc = "spawned"
    /\ \E ok \in BOOLEAN : pc' = IF ok THEN "check" ELSE "exited"
    /\ UNCHANGED <<channel_frame, channel, frame>>

\* clipboard.rs:98-102: tx.is_closed() at the top of the loop
ThreadCheck ==
    /\ cmd = "clipboard_watch" /\ pc = "check"
    /\ pc' = IF channel.closed THEN "exited" ELSE "poll"
    /\ UNCHANGED <<channel_frame, channel, frame>>

\* clipboard.rs:105-118, 125-129: read the clipboard and encode it; a new
\* image becomes last_image and is about to be sent, anything else goes to
\* the sleep
ThreadPoll ==
    /\ cmd = "clipboard_watch" /\ pc = "poll"
    /\ \E read \in {None} \cup {Some(img) : img \in ChannelImages} :
           IF IsSome(read) /\ frame.last_image # read
           THEN /\ frame' = [frame EXCEPT !.last_image = read,
                                          !.png_bytes = read]
                /\ pc' = "send"
           ELSE /\ frame' = frame
                /\ pc' = "sleep"
    /\ UNCHANGED <<channel_frame, channel>>

\* clipboard.rs:120-123: tx.blocking_send(png_bytes) returns: with an error
\* the loop is left, otherwise the thread goes to its sleep. While the
\* channel is full and open the call does not return
ThreadSend ==
    /\ cmd = "clipboard_watch" /\ pc = "send"
    /\ LET r == BlockingSend(channel, Unwrap(frame.png_bytes)) IN
           /\ r.status # "blocked"
           /\ channel' = [channel EXCEPT !.queue = r.queue]
           /\ pc' = IF r.status = "closed" THEN "exited" ELSE "sleep"
    /\ frame' = [frame EXCEPT !.png_bytes = None]
    /\ UNCHANGED channel_frame

\* clipboard.rs:133: the sleep of 500 ms ends
ThreadSleep ==
    /\ cmd = "clipboard_watch" /\ pc = "sleep"
    /\ pc' = "check"
    /\ UNCHANGED <<channel_frame, channel, frame>>

\* the consumer takes the oldest image from the receiver
ConsumerRecv ==
    /\ cmd = "clipboard_watch"
    /\ ~channel.closed /\ channel.queue # <<>>
    /\ channel.delivered < MaxCalls
    /\ channel' = [channel EXCEPT !.queue = Tail(channel.queue),
                                  !.delivered = channel.delivered + 1]
    /\ UNCHANGED <<channel_frame, pc, frame>>

\* the consumer drops the receiver: the channel is closed and what it still
\* buffered is dropped with it
ConsumerDrop ==
    /\ cmd = "clipboard_watch"
    /\ ~channel.closed
    /\ channel' = [channel EXCEPT !.closed = TRUE, !.queue = <<>>]
    /\ frame' = [frame EXCEPT !.blocked_at_close =
                     pc = "send"
                     /\ Len(channel.queue) = ChannelCapacity]
    /\ UNCHANGED <<channel_frame, pc>>

Thread ==
    \/ ThreadStart
    \/ ThreadCheck
    \/ ThreadPoll
    \/ ThreadSend
    \/ ThreadSleep

NextChannel ==
    \/ Thread
    \/ ConsumerRecv
    \/ ConsumerDrop

SpecChannel == InitChannel /\ [][NextChannel]_vars

\* the thread is an OS thread of its own: whenever it can take a step (its
\* sleep is over, its call can return) it eventually takes one. Nothing is
\* assumed of the consumer
SpecChannelLive == SpecChannel /\ WF_vars(Thread)

\* C32: the channel never buffers more than 10 images; once the receiver is
\* dropped no further image is delivered; and after the drop the watch
\* thread eventually exits, also when it was blocked sending into the full
\* channel.
C32_DropEndsTheWatch ==
    /\ [](Len(channel.queue) <= 10)
    /\ [][channel.closed => channel'.delivered = channel.delivered]_vars
    /\ (channel.closed ~> pc = "exited")

\* the receiver was dropped while the thread was blocked sending into the
\* full channel, and the thread has exited
C32_Witness ==
    /\ cmd = "clipboard_watch"
    /\ channel.closed /\ frame.blocked_at_close /\ pc = "exited"
    /\ channel.delivered > 0

-----------------------------------------------------------------------------
(* TemplateParser::generate (naming.rs:42-103) called from several threads *)
(* on the process-wide COUNTER (naming.rs:8). A template is the sequence   *)
(* of its pieces; the replacements run in the order of the code.           *)

\* the templates the callers pass
Templates ==
    {<<"file_">>, <<"file_", "{counter}">>, <<"file_", "{date}">>,
     <<"{counter}", "_", "{counter}">>}

\* naming.date_format of the configuration: a strftime format, whose
\* characters other than % specifiers are copied as they are
DateFormats == {"%Y%m%d", "{counter}"}

\* chrono's now.format(fmt).to_string()
FormatDate(fmt) == IF fmt = "%Y%m%d" THEN "20240101" ELSE fmt

\* str::replace on the pieces of a template
Replace(t, from, to) == [k \in 1..Len(t) |-> IF t[k] = from THEN to ELSE t[k]]

\* naming.rs:47-50: `if result.contains("{date}") { replace }`
ExpandDate(t, fmt) == Replace(t, "{date}", FormatDate(fmt))

\* AtomicU64::fetch_add(1, SeqCst): the value before, and the value stored,
\* in one indivisible step (the wrap at 2^64 is out of reach of the runs)
FetchAdd_NoAdvance(counter) == [old |-> counter, new |-> counter]

FetchAdd(counter) == [old |-> counter, new |-> counter + 1]

\* a thread between two calls
ThreadIdle == [pc |-> "idle", template |-> <<>>, result |-> <<>>]

\* process start: COUNTER is 1. frame holds the date format of the parser,
\* the values fetch_add handed out, in order, and the calls started
InitCounter ==
    /\ cmd = "generate"
    /\ pc = "threads"
    /\ COUNTER = 1
    /\ procs = [t \in 1..MaxThreads |-> ThreadIdle]
    /\ \E fmt \in DateFormats :
           frame = [date_format |-> fmt, handed |-> <<>>, n |-> 0]
    /\ outcome = Running
    /\ vault_file = <<>>
    /\ master_password = <<>>
    /\ remote_dir = "dir"
    /\ channel = <<>>
    /\ RestIdle

counter_frame == <<cmd, pc, outcome, vault_file, master_password,
                   remote_dir, channel, rest_vars>>

\* naming.rs:42-44: a thread calls generate(template, "png")
GenCall(t) ==
    /\ cmd = "generate" /\ procs[t].pc = "idle" /\ frame.n < MaxCalls
    /\ \E template \in Templates :
           procs' = [procs EXCEPT ![t] = [pc |-> "date",
                                          template |-> template,
                                          result |-> template]]
    /\ frame' = [frame EXCEPT !.n = frame.n + 1]
    /\ UNCHANGED <<counter_frame, COUNTER>>

\* naming.rs:46-62: the {date}, {time} and {uuid} replacements
GenExpand(t) ==
    /\ cmd = "generate" /\ procs[t].pc = "date"
    /\ procs' = [procs EXCEPT
           ![t].pc = "counter",
           ![t].result = ExpandDate(procs[t].result, frame.date_format)]
    /\ UNCHANGED <<counter_frame, COUNTER, frame>>

\* naming.rs:64-68: `if result.contains("{counter}")`: one fetch_add, and
\* every {counter} of the result replaced by the decimal text of the value
\* it returned
GenCounter(t) ==
    /\ cmd = "generate" /\ procs[t].pc = "counter"
    /\ IF Contains(procs[t].result, "{counter}")
       THEN LET r == FetchAdd(COUNTER) IN
                /\ COUNTER' = r.new
                /\ frame' = [frame EXCEPT !.handed = Append(@, r.old)]
                /\ procs' = [procs EXCEPT
                       ![t].pc = "extension",
                       ![t].result = Replace(procs[t].result, "{counter}",
                                             ToString(r.old))]
       ELSE /\ procs' = [procs EXCEPT ![t].pc = "extension"]
            /\ UNCHANGED <<COUNTER, frame>>
    /\ UNCHANGED counter_frame

\* naming.rs:70-102: no {random:N} in these templates; the extension is
\* added and the name returned
GenReturn(t) ==
    /\ cmd = "generate" /\ procs[t].pc = "extension"
    /\ procs' = [procs EXCEPT ![t] = ThreadIdle]
    /\ UNCHANGED <<counter_frame, COUNTER, frame>>

NextCounter ==
    \E t \in 1..MaxThreads :
        \/ GenCall(t)
        \/ GenExpand(t)
        \/ GenCounter(t)
        \/ GenReturn(t)

SpecCounter == InitCounter /\ [][NextCounter]_vars

\* the values handed out so far are 1, 2, 3, ... in this order, and the
\* counter holds the next one
HandedInOrder ==
    /\ \A k \in 1..Len(frame.handed) : frame.handed[k] = k
    /\ COUNTER = Len(frame.handed) + 1

\* thread t passes the {counter} step of its call
CounterStep(t) == procs[t].pc = "counter" /\ procs'[t].pc = "extension"

\* C33 as stated: the values handed out are 1, 2, 3, ... without repeats or
\* gaps under every interleaving, and a call whose template has no {counter}
\* leaves the counter unchanged.
C33_CounterIsAtomic ==
    /\ [](cmd = "generate" => HandedInOrder)
    /\ [][\A t \in 1..MaxThreads :
              (CounterStep(t) /\ ~Contains(procs[t].template, "{counter}"))
                  => COUNTER' = COUNTER]_vars

\* C33, amended: the values handed out are 1, 2, 3, ... without repeats or
\* gaps under every interleaving, and a call whose name has no {counter}
\* after the {date}, {time} and {uuid} replacements leaves the counter
\* unchanged.
C33_CounterIsAtomicAfterExpansion ==
    /\ [](cmd = "generate" => HandedInOrder)
    /\ [][\A t \in 1..MaxThreads :
              (CounterStep(t) /\ ~Contains(procs[t].result, "{counter}"))
                  => COUNTER' = COUNTER]_vars

\* two threads are inside generate() at once, one has its value and the
\* other, whose name has no {counter}, is at the counter step
C33_Witness ==
    /\ cmd = "generate"
    /\ Len(frame.handed) = 2
    /\ \E t, u \in 1..MaxThreads :
           /\ t # u
           /\ procs[t].pc = "extension" /\ procs[t].result = <<"2", "_", "2">>
           /\ procs[u].pc = "extension"
           /\ ~Contains(procs[u].template, "{counter}")
           /\ procs[u].result = procs[u].template

-----------------------------------------------------------------------------
(* Two processes on the encrypted-file vault: set_encrypted_file           *)
(* (keychain.rs:171-176) as its load (191-220) and its insert and save     *)
(* (223-263), each one step on the shared file. fs::write is taken as one  *)
(* step.                                                                   *)

\* the processes, and the key each of them sets
VaultProcs == {1, 2}

ProcKey(p) == KeychainKey(<<"a", "b">>[p])

\* keychain.rs:173-175: the insert into the loaded map and the save of it
InsertAndSave_OnlyKey(store, key, value, env, salt, nonce, order) ==
    SaveEncryptedStore(StoreInsert(<<>>, key, value), env, salt, nonce,
                       order)

InsertAndSave(store, key, value, env, salt, nonce, order) ==
    SaveEncryptedStore(StoreInsert(store, key, value), env, salt, nonce,
                       order)

\* a process outside a vault call
ProcIdle == [pc |-> "idle", value |-> <<>>, store |-> <<>>, ok |-> FALSE]

\* both processes have the vault at the same path and the same master
\* password. frame holds the processes in the order of their saves and the
\* result of the last get()
InitRace ==
    /\ cmd = "vault_race"
    /\ pc = "processes"
    /\ master_password \in {None, Some("m")}
    /\ vault_file \in VaultFiles(master_password)
    /\ keychain = <<>>
    /\ procs = [p \in VaultProcs |-> ProcIdle]
    /\ frame = [savers |-> <<>>, got |-> None]
    /\ outcome = Running
    /\ COUNTER = 1
    /\ remote_dir = "dir"
    /\ channel = <<>>
    /\ config = [security |-> [use_system_keychain |-> FALSE]]
    /\ destination = None
    /\ image_data = <<>>
    /\ final_filename = GivenFilename
    /\ uploader_names = <<>>
    /\ uploaders = <<>>
    /\ i = 1
    /\ primary_result = None
    /\ history = <<>>
    /\ history_handle = None
    /\ next_id = 1
    /\ clock = 1
    /\ clipboard_text = None
    /\ remote = {}
    /\ last_hash = None
    /\ upload_count = 0
    /\ polls = 0
    /\ log = <<>>
    /\ attempts = <<>>
    /\ added = <<>>
    /\ history_step = "none"
    /\ files = <<>>
    /\ call = NoCall
    /\ screen = "Home"
    /\ available_uploaders = <<>>
    /\ history_selected = 1
    /\ show_reupload_menu = FALSE
    /\ reupload_selected = 1
    /\ show_password_prompt = FALSE
    /\ password_buffer = <<>>
    /\ pending_reupload = None
    /\ status_message = None
    /\ vault_keys = [sure |-> {}, unsure |-> {}]
    /\ seen = [read |-> <<>>, image |-> <<>>, dispatched |-> FALSE]
    /\ in_flight = <<>>

race_frame == <<cmd, pc, master_password, outcome, COUNTER, remote_dir,
                channel, rest_vars>>

\* keychain.rs:172: `let mut store = self.load_encrypted_store()?`
RaceSetLoad(p) ==
    /\ cmd = "vault_race" /\ procs[p].pc = "idle"
    /\ \E value \in VaultValues :
           LET loaded == LoadEncryptedStore(vault_file, master_password)
           IN  procs' = [procs EXCEPT ![p] =
                   [pc |-> IF loaded.ok THEN "loaded" ELSE "returned",
                    value |-> value, store |-> loaded.store, ok |-> FALSE]]
    /\ UNCHANGED <<race_frame, keychain, vault_file, frame>>

\* keychain.rs:173-175: insert, save, Ok(()); a failing write returns the
\* error and leaves the file
RaceSetSave(p) ==
    /\ cmd = "vault_race" /\ procs[p].pc = "loaded"
    /\ \E salt \in Salts, nonce \in Nonces, order \in KeyOrders,
          fault \in {"none", "write"} :
           IF fault = "none"
           THEN /\ vault_file' = InsertAndSave(procs[p].store, ProcKey(p),
                                               procs[p].value,
                                               master_password, salt, nonce,
                                               order)
                /\ procs' = [procs EXCEPT ![p].pc = "returned",
                                          ![p].ok = TRUE]
                /\ frame' = [frame EXCEPT !.savers = Append(@, p)]
           ELSE /\ procs' = [procs EXCEPT ![p].pc = "returned"]
                /\ UNCHANGED <<vault_file, frame>>
    /\ UNCHANGED <<race_frame, keychain>>

\* keychain.rs:178-181: once every set() has returned, a process reads one
\* of the keys back
RaceGet(p) ==
    /\ cmd = "vault_race"
    /\ \A q \in VaultProcs : procs[q].pc = "returned"
    /\ frame.got = None
    /\ LET r == GetEncryptedFile(vault_file, master_password, ProcKey(p))
       IN  frame' = [frame EXCEPT
               !.got = Some([key |-> ProcKey(p), ok |-> r.ok,
                             value |-> r.value])]
    /\ UNCHANGED <<race_frame, keychain, vault_file, procs>>

NextRace ==
    \E p \in VaultProcs :
        \/ RaceSetLoad(p)
        \/ RaceSetSave(p)
        \/ RaceGet(p)

SpecRace == InitRace /\ [][NextRace]_vars

\* every set() returned Ok
AllSetOk == \A p \in VaultProcs : procs[p].pc = "returned" /\ procs[p].ok

\* the process whose save came last
LastSaver == frame.savers[Len(frame.savers)]

\* C34: set() has no lock around its load and its save: once both calls
\* returned Ok the file holds what the last saver had loaded plus its own
\* key, so the other process's key is there only if the last saver loaded
\* after the other's save; otherwise that write is lost and get() of its key
\* returns absent.
C34_LastSaverDecides ==
    (cmd = "vault_race" /\ AllSetOk) =>
        LET now == LoadEncryptedStore(vault_file, master_password)
            last == procs[LastSaver]
        IN  /\ now.ok
            /\ now.store = StoreInsert(last.store, ProcKey(LastSaver),
                                       last.value)
            /\ \A p \in VaultProcs \ {LastSaver} :
                   ProcKey(p) \in DOMAIN now.store
                       <=> ProcKey(p) \in DOMAIN last.store
            /\ (IsSome(frame.got) /\ Unwrap(frame.got).value = None)
                   => Unwrap(frame.got).key \notin DOMAIN last.store

\* both set() calls returned Ok and get() of one of the two keys returned
\* Ok(None): that write was lost
C34_Witness ==
    /\ cmd = "vault_race" /\ AllSetOk
    /\ vault_file # None
    /\ IsSome(frame.got)
    /\ Unwrap(frame.got).ok /\ Unwrap(frame.got).value = None
    /\ Unwrap(frame.got).key # ProcKey(LastSaver)

-----------------------------------------------------------------------------
(* The names of the files the history store writes *)

\* the characters sanitize_filename replaces (history.rs:326)
PathHostile == {"/", "\\", ":", "*", "?", "\"", "<", ">", "|"}

\* the part of a stored path that comes from the entry's file name
NamePart(path) == IF path[1] = "thumbnails" THEN path[2][2] ELSE path[2]

\* C35: every file the store has written, thumbnail or verbatim copy, is
\* under a name in which none of the characters / \ : * ? " < > | of the
\* entry's file name is left.
C35_PersistedNamesAreSanitized ==
    cmd = "store" =>
        \A path \in DOMAIN files :
            \A k \in 1..Len(NamePart(path)) :
                NamePart(path)[k] \notin PathHostile

-----------------------------------------------------------------------------
(* The credential prompt and the pending re-send *)

\* C36: in the UI the credential prompt is shown exactly when a pending
\* re-send is stored.
C36_PromptIffPending ==
    cmd = "tui" => (show_password_prompt <=> IsSome(pending_reupload))

\* an upload with the stored password failed on authentication: the prompt
\* is open with the re-send pending, and a character has been typed
C36_Witness ==
    /\ cmd = "tui"
    /\ show_password_prompt /\ IsSome(pending_reupload)
    /\ password_buffer # <<>>
    /\ Len(attempts) > 0

-----------------------------------------------------------------------------
(* The destination named in a history row *)

\* the successful upload() calls of the current dispatch, in order
OkAttempts == SelectSeq(attempts, LAMBDA a : a.ok)

\* C37: the destination stored in a history row is the destination whose
\* upload returned the remote_path and url of that row, in the upload command
\* and in the watch loop.
C37_RowNamesItsProducer ==
    cmd \in {"upload", "watch"} =>
        \A n \in 1..Len(added) :
            /\ OkAttempts # <<>>
            /\ added[n].destination = OkAttempts[1].dest

-----------------------------------------------------------------------------
(* The history row of a successful primary upload *)

\* the upload to the primary destination, the first of the list, succeeded
PrimarySucceeded ==
    \E k \in 1..Len(attempts) : attempts[k].idx = 1 /\ attempts[k].ok

\* C38: in the upload command, once the primary destination's upload has
\* succeeded and history is enabled with a store that opens and accepts the
\* row, the command does not end without a history row for that upload,
\* whatever later step fails.
C38_RowWrittenDespiteLaterFailure ==
    (cmd = "upload" /\ pc = "done" /\ PrimarySucceeded
     /\ config.history.enabled
     /\ history_step \notin {"open_failed", "err_before"})
        => Len(added) = 1

-----------------------------------------------------------------------------
(* The files the rows of the store name *)

\* C39: after any sequence of add() calls, with their evictions, that all
\* returned Ok, every
\* thumbnail_path and local_copy_path of a row still in the store names a
\* file that exists, also when several entries have the same filename.
C39_NoDanglingFileReferences ==
    (cmd = "store" /\ call.adds = call.n) =>
        \A k \in 1..Len(history) : RowFiles(history[k]) \subseteq DOMAIN files

-----------------------------------------------------------------------------
(* The Uploaders section of the settings screen (app.rs:630-700, 756-907): *)
(* its actions on config.uploads, and the list of destinations a re-send   *)
(* chooses from.                                                           *)

\* app.rs:208-234 get_uploader_fields: the text fields of a type that go to
\* UploadConfig (the password goes to the vault)
TextFields(uploader_type) ==
    IF uploader_type = "local" THEN {"local_path"}
    ELSE IF uploader_type \in {"sftp", "ssh"}
    THEN {"host", "username", "remote_path", "base_url", "key_path"}
    ELSE {}

\* app.rs:794-805: the edit buffer written to the field, an empty one as None
SetField(uploader, field, value) ==
    LET v == IF value = <<>> THEN None ELSE Some(value) IN
    CASE field = "host" -> [uploader EXCEPT !.host = v]
      [] field = "username" -> [uploader EXCEPT !.username = v]
      [] field = "remote_path" -> [uploader EXCEPT !.remote_path = v]
      [] field = "base_url" -> [uploader EXCEPT !.base_url = v]
      [] field = "local_path" -> [uploader EXCEPT !.local_path = v]
      [] field = "key_path" -> [uploader EXCEPT !.key_path = v]
      [] OTHER -> uploader

\* app.rs:843-846: the type after the current one in local, sftp, ssh
NextType(uploader_type) ==
    CASE uploader_type = "local" -> "sftp"
      [] uploader_type = "sftp" -> "ssh"
      [] uploader_type = "ssh" -> "local"
      [] OTHER -> "sftp"

\* app.rs:862-874: the UploadConfig of a new uploader
NewUploadConfig(uploader_type) ==
    IF uploader_type = "local"
    THEN [uploader_type |-> "local", enabled |-> TRUE, host |-> None,
          username |-> None, remote_path |-> None, base_url |-> None,
          local_path |-> Some(<<"~/Pictures/Screenshots">>),
          use_key_auth |-> None, key_path |-> None]
    ELSE [uploader_type |-> uploader_type, enabled |-> TRUE,
          host |-> Some(<<"example.com">>), username |-> Some(<<"user">>),
          remote_path |-> Some(<<"/path/to/uploads">>), base_url |-> None,
          local_path |-> None, use_key_auth |-> Some(TRUE),
          key_path |-> Some(<<"~/.ssh/id_rsa">>)]

\* what the edit buffer holds when an edit is applied
EditValues == {<<>>, <<"edited">>}

\* the fields the edits drawn are made on
EditedFields(uploader_type) ==
    TextFields(uploader_type) \cap {"host", "local_path"}

\* App::new (app.rs:238-313) on a configuration with the destinations a and
\* b. frame holds uploader_selected (from 0), the actions made so far and
\* the destination the last re-send took from the list
InitSettings ==
    /\ cmd = "settings"
    /\ pc = "run"
    /\ \E en \in BOOLEAN : config = [uploads |-> TuiUploads(SshConfig("b", en))]
    /\ available_uploaders \in AvailableUploaders(config.uploads)
    /\ uploader_names \in {<<"a", "b">>, <<"b", "a">>}
    /\ frame = [uploader_selected |-> 0, n |-> 0, used |-> None]
    /\ screen = "Settings"
    /\ history_selected = 1
    /\ show_reupload_menu = FALSE
    /\ reupload_selected = 1
    /\ show_password_prompt = FALSE
    /\ password_buffer = <<>>
    /\ pending_reupload = None
    /\ status_message = None
    /\ keychain = <<>>
    /\ destination = None
    /\ image_data = <<>>
    /\ final_filename = GivenFilename
    /\ uploaders = <<>>
    /\ i = 1
    /\ primary_result = None
    /\ outcome = Running
    /\ history = <<>>
    /\ history_handle = None
    /\ next_id = 1
    /\ clock = 1
    /\ clipboard_text = None
    /\ remote = {}
    /\ last_hash = None
    /\ upload_count = 0
    /\ polls = 0
    /\ COUNTER = 1
    /\ log = <<>>
    /\ attempts = <<>>
    /\ added = <<>>
    /\ history_step = "none"
    /\ files = <<>>
    /\ call = NoCall
    /\ vault_file = <<>>
    /\ master_password = <<>>
    /\ vault_keys = [sure |-> {}, unsure |-> {}]
    /\ seen = [read |-> <<>>, image |-> <<>>, dispatched |-> FALSE]
    /\ in_flight = <<>>
    /\ remote_dir = "dir"
    /\ channel = <<>>
    /\ procs = <<>>

settings_frame == <<cmd, destination, image_data, final_filename,
                    uploaders, i, primary_result, outcome, history,
                    history_handle, next_id, clock, clipboard_text, remote,
                    last_hash, upload_count, polls, COUNTER, log, attempts,
                    added, history_step, store_vars, screen,
                    history_selected, show_reupload_menu,
                    show_password_prompt, password_buffer, pending_reupload,
                    keychain, vault_vars, seen, in_flight, race_vars>>

SettingsRunning == cmd = "settings" /\ pc = "run" /\ frame.n < MaxEdits

\* the uploader the cursor is on, when there is one
HasCurrent == frame.uploader_selected < Len(uploader_names)

Current == uploader_names[frame.uploader_selected + 1]

Acted == [frame EXCEPT !.n = frame.n + 1]

\* app.rs:642-659: Up and Down between the uploaders
SettingsMove ==
    /\ cmd = "settings" /\ pc = "run"
    /\ \E to \in {frame.uploader_selected - 1, frame.uploader_selected + 1} :
           /\ to >= 0 /\ to < Len(uploader_names)
           /\ frame' = [frame EXCEPT !.uploader_selected = to]
    /\ UNCHANGED <<settings_frame, pc, config, available_uploaders,
                   uploader_names, reupload_selected, status_message>>

\* app.rs:756-808 apply_uploader_edit on a text field of the uploader
SettingsApplyEdit ==
    /\ SettingsRunning /\ HasCurrent
    /\ Current \in DOMAIN config.uploads
    /\ \E field \in EditedFields(config.uploads[Current].uploader_type),
          value \in EditValues :
           config' = [config EXCEPT !.uploads[Current] =
                          SetField(config.uploads[Current], field, value)]
    /\ status_message' = Some(<<"Value updated (Ctrl+S to save)">>)
    /\ frame' = Acted
    /\ UNCHANGED <<settings_frame, pc, available_uploaders, uploader_names,
                   reupload_selected>>

\* app.rs:810-830 toggle_uploader_bool: enabled refreshes the list,
\* use_key_auth (a field of sftp and ssh) does not
SettingsToggleBool ==
    /\ SettingsRunning /\ HasCurrent
    /\ Current \in DOMAIN config.uploads
    /\ LET uploader == config.uploads[Current] IN
       \/ /\ config' = [config EXCEPT
                 !.uploads[Current].enabled = ~uploader.enabled]
          /\ available_uploaders' \in AvailableUploaders(config'.uploads)
       \/ /\ uploader.uploader_type \in {"sftp", "ssh"}
          /\ config' = [config EXCEPT
                 !.uploads[Current].use_key_auth =
                     Some(~(IF IsSome(uploader.use_key_auth)
                            THEN Unwrap(uploader.use_key_auth) ELSE TRUE))]
          /\ available_uploaders' = available_uploaders
    /\ status_message' = Some(<<"Value toggled (Ctrl+S to save)">>)
    /\ frame' = Acted
    /\ UNCHANGED <<settings_frame, pc, uploader_names, reupload_selected>>

\* app.rs:832-852 cycle_uploader_enum on the type
SettingsCycleType ==
    /\ SettingsRunning /\ HasCurrent
    /\ Current \in DOMAIN config.uploads
    /\ config' = [config EXCEPT !.uploads[Current].uploader_type =
                      NextType(config.uploads[Current].uploader_type)]
    /\ status_message' = Some(<<"Value changed (Ctrl+S to save)">>)
    /\ frame' = Acted
    /\ UNCHANGED <<settings_frame, pc, available_uploaders, uploader_names,
                   reupload_selected>>

\* app.rs:854-884 add_new_uploader under a new name
SettingsAdd ==
    /\ SettingsRunning
    /\ "c" \notin DOMAIN config.uploads
    /\ \E uploader_type \in {"local", "sftp", "ssh"} :
           config' = [config EXCEPT !.uploads =
               [n \in DOMAIN config.uploads \cup {"c"} |->
                   IF n = "c" THEN NewUploadConfig(uploader_type)
                   ELSE config.uploads[n]]]
    /\ uploader_names' = Append(uploader_names, "c")
    /\ available_uploaders' \in AvailableUploaders(config'.uploads)
    /\ status_message' = Some(<<"Uploader added (Ctrl+S to save)">>)
    /\ frame' = [Acted EXCEPT !.uploader_selected = Len(uploader_names)]
    /\ UNCHANGED <<settings_frame, pc, reupload_selected>>

\* app.rs:886-899 delete_current_uploader
SettingsDelete ==
    /\ SettingsRunning /\ HasCurrent
    /\ LET name == Current
           names == [k \in 1..(Len(uploader_names) - 1) |->
                        IF k <= frame.uploader_selected
                        THEN uploader_names[k] ELSE uploader_names[k + 1]]
       IN  /\ uploader_names' = names
           /\ config' = [config EXCEPT !.uploads =
                  [n \in DOMAIN config.uploads \ {name} |->
                      config.uploads[n]]]
           /\ frame' = [Acted EXCEPT !.uploader_selected =
                  IF frame.uploader_selected >= Len(names)
                     /\ frame.uploader_selected > 0
                  THEN frame.uploader_selected - 1
                  ELSE frame.uploader_selected]
    /\ available_uploaders' \in AvailableUploaders(config'.uploads)
    /\ status_message' = Some(<<"Uploader deleted (Ctrl+S to save)">>)
    /\ UNCHANGED <<settings_frame, pc, reupload_selected>>

\* app.rs:1160-1166 perform_reupload: the destination of a re-send is the
\* entry of available_uploaders under the cursor of the menu
SettingsResend ==
    /\ cmd = "settings" /\ pc = "run"
    /\ \E k \in 1..Len(available_uploaders) :
           /\ reupload_selected' = k
           /\ frame' = [frame EXCEPT !.used = Some(available_uploaders[k])]
    /\ pc' = "resent"
    /\ UNCHANGED <<settings_frame, config, available_uploaders,
                   uploader_names, status_message>>

NextSettings ==
    \/ SettingsMove
    \/ SettingsApplyEdit
    \/ SettingsToggleBool
    \/ SettingsCycleType
    \/ SettingsAdd
    \/ SettingsDelete
    \/ SettingsResend

SpecSettings == InitSettings /\ [][NextSettings]_vars

\* C40: after any sequence of settings actions available_uploaders holds
\* exactly the enabled entries of config.uploads, each once and with its
\* current field values.
C40_AvailableIsEnabledConfig ==
    cmd = "settings" =>
        /\ Range(available_uploaders) =
               {<<n, config.uploads[n]>> :
                    n \in {m \in DOMAIN config.uploads :
                              config.uploads[m].enabled}}
        /\ \A j, k \in 1..Len(available_uploaders) :
               j # k => available_uploaders[j][1] # available_uploaders[k][1]

====
